---------------------------- MODULE Spec2Model ----------------------------
(***************************************************************************)
(* Vehicle registration dashboard: the SQL harvester                       *)
(* (sql_vahan_data_scrapper.py), its SQLite store and the CSV migration    *)
(* (migrate_csv_to_sql.py).                                                *)
(*                                                                         *)
(* Representation.  A table parsed by pandas is a record                   *)
(*   [cols |-> sequence of column labels, rows |-> sequence of rows],      *)
(* a row being a sequence of cells aligned with cols.  A flattened column  *)
(* label 'a_b' is the tuple <<"a","b">> of its '_'-separated segments, so  *)
(* 'Calendar Year_2016' is <<"Calendar Year","2016">> and 'Name' is        *)
(* <<"Name">>.  A numeric cell is a natural number, NaN stands for a       *)
(* missing numeric cell and NullName for a missing name.  A database       *)
(* table is the sequence of its rows in insertion order: the position of   *)
(* a row is its AUTOINCREMENT id.                                          *)
(***************************************************************************)
EXTENDS Integers, Sequences, FiniteSets, TLC

(***************************************************************************)
(* Bounds of the model.                                                    *)
(***************************************************************************)
MaxFiles == 2
MaxRuns == 2
MaxFaults == 1

NaN == -1
NullName == "<NA>"

VARIABLES
  annual,      \* rows of annual_registrations
  monthly,     \* rows of monthly_registrations
  inserts,     \* calls of insert_data_into_db so far
  lastInsert,  \* how the last call of insert_data_into_db went
  b1, b2,      \* the two batches of the two-writes scenario
  step,        \* position in the two-writes scenario
  parsed,      \* the tables pd.read_html returned, in the extraction scenario
  x_mode,      \* the x_axis_option of the extraction scenario
  best,        \* the index of best_df among parsed, 0 for None
  made,        \* what the normalizer made of best_df
  estep,       \* position in the extraction scenario
  pc,          \* position of main
  run,         \* runs of main started so far
  driver,      \* the browser session: "none", "open" or "quit"
  yi, xi, ki,  \* loop positions: y-axis option, x-axis option, year
  xopts,       \* relevant_x_axis_options of the current y-axis option
  years,       \* relevant_year_options of the current x-axis option
  ticked,      \* the years ticked in the multi-select year list
  panel,       \* the dropdown panel that is open, "none" when none is
  faults,      \* timeouts and abnormal renderings the remote page produced
  refreshed,   \* the last click on the refresh button
  lastScrape,  \* what the last call of scrape_table_data_to_db met
  reached,     \* combinations whose loop body began in this run
  refreshFailed, \* combinations of this run whose refresh timed out
  skipped,     \* axis options of this run skipped by a failure
  ended,       \* how the current run ended, "none" while it runs
  curGot,      \* per combination of this run: the table extracted and
               \* the answer of the database
  fetched_year_options, \* what the last listing of a year dropdown returned
  prevGot,     \* the same for the previous run
  prevDb,      \* the two tables when the previous run ended
  prevEnded,   \* how the previous run ended
  selected,    \* the option selected in the single-select year dropdown
  lastCall,    \* the last call of the dropdown controller: what it was
               \* given, what it did to the page and what it returned
  calls,       \* calls of the dropdown controller in the controller scenario
  loaded,      \* the rows the dashboard loaded, in the growth scenario
  shown,       \* the growth tables the dashboard computed from them
  dstep,       \* position in the growth scenario
  raw,         \* the cells of an object column, in the cleaning scenario
  cleaned,     \* what the cleaning loop made of the column
  category,    \* a vehicle category name, in the mapping scenario
  bucketed,    \* what each copy of map_vehicle_category made of it
  outdir,      \* the files in OUTPUT_DIR of the CSV harvester, by name
  astep        \* position in these scenarios

dbVars == <<annual, monthly, inserts, lastInsert>>
inVars == <<b1, b2, step, parsed, x_mode, best, made, estep>>
loopVars == <<yi, xi, ki, xopts, years>>
uiVars == <<ticked, panel>>
histVars == <<refreshed, lastScrape, reached, refreshFailed, skipped, curGot,
             fetched_year_options>>
runVars == <<run, driver, ended, prevGot, prevDb, prevEnded>>
ctlVars == <<selected, lastCall, calls>>
dashVars == <<loaded, shown, dstep>>
auxVars == <<raw, cleaned, category, bucketed, outdir, astep>>
vars == <<annual, monthly, inserts, lastInsert, b1, b2, step, parsed, x_mode, best, made,
          estep, pc, run, driver, yi, xi, ki,
          xopts, years, ticked, panel, faults, refreshed, lastScrape, reached,
          refreshFailed, skipped, ended, curGot, fetched_year_options, prevGot,
          prevDb, prevEnded,
          selected, lastCall, calls, loaded, shown, dstep,
          raw, cleaned, category, bucketed, outdir, astep>>

\* no call of the dropdown controller yet
NoCall ==
  [op |-> "none", id |-> "none", option_text |-> "none", events |-> <<>>,
   ret |-> "none", was |-> "none"]

\* the controller scenario has not begun: nothing is selected
ControllerAtRest == selected = "none" /\ lastCall = NoCall /\ calls = 0

\* the growth scenario has not begun: nothing is loaded
DashboardAtRest == loaded = <<>> /\ shown = <<>> /\ dstep = 0

\* the scenarios of value cleaning, of category mapping and of the CSV
\* harvester's files have not begun
AuxAtRest ==
  /\ raw = <<>> /\ cleaned = <<>> /\ category = "none" /\ bucketed = <<>>
  /\ outdir = <<>> /\ astep = 0

(***************************************************************************)
(* Generic helpers on sequences.                                           *)
(***************************************************************************)
Range(s) == {s[i] : i \in DOMAIN s}

\* concatenation of a sequence of sequences
Concat(ss) ==
  LET F[i \in 0..Len(ss)] == IF i = 0 THEN <<>> ELSE F[i-1] \o ss[i]
  IN F[Len(ss)]

\* the sequences over S of length at most n
SeqsUpTo(S, n) == UNION {[1..k -> S] : k \in 0..n}

(***************************************************************************)
(* Column labels and the string tests the code applies to them.            *)
(***************************************************************************)
YearStrings == {"2015", "2016", "2017", "2018"}

\* int(s) for the year strings of the model
ParseInt(s) ==
  CASE s = "2015" -> 2015
    [] s = "2016" -> 2016
    [] s = "2017" -> 2017
    [] s = "2018" -> 2018

SNoCol == <<"S No", "S No">>
NameCol == <<"Name">>
MakerCol == <<"Maker", "Maker">>
CategoryCol == <<"Vehicle Category", "Vehicle Category">>
TotalCol == <<"TOTAL", "TOTAL">>
YearCol(y) == <<"Calendar Year", y>>
MonthCol(m) == <<"Month Wise", m>>

\* re.compile(r'Calendar Year_(\d{4})').match(col)
IsYearCol(col) ==
  /\ Len(col) >= 2
  /\ col[1] = "Calendar Year"
  /\ col[2] \in YearStrings

\* 'Month Wise_' in col
IsMonthCol(col) == Len(col) >= 2 /\ col[1] = "Month Wise"

\* the test a list comprehension over the columns applies
Matches(kind, col) ==
  CASE kind = "year" -> IsYearCol(col)
    [] kind = "month" -> IsMonthCol(col)
    [] kind = "name" -> col = NameCol

\* [col for col in df.columns if ...]: the indices of the matching columns,
\* in order
ColumnsWhere(cols, kind) ==
  LET F[i \in 0..Len(cols)] ==
        IF i = 0 THEN <<>>
        ELSE IF Matches(kind, cols[i]) THEN Append(F[i-1], i) ELSE F[i-1]
  IN F[Len(cols)]

(***************************************************************************)
(* The store: sqlite tables annual_registrations and monthly_registrations *)
(* with UNIQUE(Name, DataType, Year[, Month]) and every column NOT NULL.   *)
(***************************************************************************)
AnnualKey(r) == <<r.Name, r.DataType, r.Year>>
MonthlyKey(r) == <<r.Name, r.DataType, r.Year, r.Month>>

KeyOf(table_name, r) ==
  IF table_name = "annual_registrations" THEN AnnualKey(r) ELSE MonthlyKey(r)

NotNullOf(table_name, r) ==
  IF table_name = "annual_registrations"
  THEN r.Name # NullName /\ r.Registrations # NaN
  ELSE r.Name # NullName /\ r.MonthlyRegistrations # NaN

\* a table whose UNIQUE constraint looks only at the rows of one statement
NoViolationWithinBatch(rows, batch, table_name) ==
  /\ \A i \in DOMAIN batch : NotNullOf(table_name, batch[i])
  /\ \A i, j \in DOMAIN batch :
        i # j => KeyOf(table_name, batch[i]) # KeyOf(table_name, batch[j])

\* the INSERT of every row of the batch violates no constraint of the table
NoViolation(rows, batch, table_name) ==
  /\ \A i \in DOMAIN batch : NotNullOf(table_name, batch[i])
  /\ \A i \in DOMAIN batch : \A j \in DOMAIN rows :
        KeyOf(table_name, batch[i]) # KeyOf(table_name, rows[j])
  /\ \A i, j \in DOMAIN batch :
        i # j => KeyOf(table_name, batch[i]) # KeyOf(table_name, batch[j])

\* to_sql into a table declared without its UNIQUE constraint
ToSqlNoUnique(rows, batch, table_name) ==
  IF \A i \in DOMAIN batch : NotNullOf(table_name, batch[i])
  THEN rows \o batch ELSE rows

\* a write that commits row by row: the rows that violate a constraint are
\* left out, the others are stored
ToSqlRowByRow(rows, batch, table_name) ==
  LET F[i \in 0..Len(batch)] ==
        IF i = 0 THEN rows
        ELSE IF NoViolation(F[i-1], <<batch[i]>>, table_name)
             THEN Append(F[i-1], batch[i]) ELSE F[i-1]
  IN F[Len(batch)]

\* df.to_sql(table_name, conn, if_exists='append', index=False): one
\* transaction, committed when every row was inserted and rolled back when
\* any INSERT raises.
ToSql(rows, batch, table_name) ==
  IF NoViolation(rows, batch, table_name) THEN rows \o batch ELSE rows

\* insert_data_into_db(df, table_name): an empty frame returns early, every
\* exception of to_sql is caught.
insert_data_into_db(rows, batch, table_name) ==
  IF batch = <<>> THEN rows ELSE ToSql(rows, batch, table_name)

(***************************************************************************)
(* Table extractor and record normalizer of scrape_table_data_to_db.       *)
(***************************************************************************)
\* any('S No' in str(col) or 'S. No' in str(col) for col in df.columns)
s_no_found(df) ==
  \E i \in DOMAIN df.cols : \E k \in DOMAIN df.cols[i] :
     df.cols[i][k] \in {"S No", "S. No"}

Shape0(df) == Len(df.rows)
Shape1(df) == Len(df.cols)

\* a size that counts the rows only
RowCount(df) == Len(df.rows)

Size(df) == Shape0(df) * Shape1(df)

\* a loop over the parsed tables without its first test: the largest table
\* with more than one row and more than two columns
LargestOnly(tables) ==
  LET F[i \in 0..Len(tables)] ==
        IF i = 0 THEN 0
        ELSE IF /\ Shape0(tables[i]) > 1
                /\ Shape1(tables[i]) > 2
                /\ (F[i-1] = 0 \/ Size(tables[i]) > Size(tables[F[i-1]]))
             THEN i ELSE F[i-1]
  IN F[Len(tables)]

\* a loop whose first test takes a table with a serial-number header
\* whatever the number of its rows
SerialOfAnyLength(tables) ==
  LET F[i \in 0..Len(tables)] ==
        IF i = 0 THEN [best |-> 0, stop |-> FALSE]
        ELSE LET p == F[i-1]
                 df == tables[i]
             IN IF p.stop THEN p
                ELSE IF s_no_found(df) THEN [best |-> i, stop |-> TRUE]
                ELSE IF /\ Shape0(df) > 1
                        /\ Shape1(df) > 2
                        /\ (p.best = 0 \/ Size(df) > Size(tables[p.best]))
                     THEN [best |-> i, stop |-> FALSE]
                ELSE p
  IN F[Len(tables)].best

\* the loop over the parsed tables: the index of best_df, 0 for None
BestIndex(tables) ==
  LET F[i \in 0..Len(tables)] ==
        IF i = 0 THEN [best |-> 0, stop |-> FALSE]
        ELSE LET p == F[i-1]
                 df == tables[i]
             IN IF p.stop THEN p
                ELSE IF s_no_found(df) /\ Shape0(df) > 1
                     THEN [best |-> i, stop |-> TRUE]
                ELSE IF /\ Shape0(df) > 1
                        /\ Shape1(df) > 2
                        /\ (p.best = 0 \/ Size(df) > Size(tables[p.best]))
                     THEN [best |-> i, stop |-> FALSE]
                ELSE p
  IN F[Len(tables)].best

\* A name as the sequence of its pieces: a comma, a blank, and the runs of
\* text between them, a run that map_vehicle_category looks for standing as
\* a piece of its own.  A name of one piece is its own spelling.
NameTokens(c) ==
  CASE c = "BUS, SCHOOL" -> <<"BUS", ",", " ", "SCHOOL">>
    [] c = "BUS SCHOOL" -> <<"BUS", " ", "SCHOOL">>
    [] c = "TWO WHEELER(NT)" -> <<"TWO WHEELER", "(NT)">>
    [] OTHER -> <<c>>

\* ''.join(pieces)
Join(ts) ==
  LET F[i \in 0..Len(ts)] == IF i = 0 THEN "" ELSE F[i-1] \o ts[i]
  IN F[Len(ts)]

\* .str.replace(old, '', regex=False)
StrReplace(ts, old) == SelectSeq(ts, LAMBDA t : t # old)

\* .str.strip(): the blanks at both ends go
Strip(ts) ==
  LET inner == { i \in DOMAIN ts : ts[i] # " " }
      lo == CHOOSE i \in inner : \A j \in inner : i <= j
      hi == CHOOSE i \in inner : \A j \in inner : j <= i
  IN IF inner = {} THEN <<>> ELSE SubSeq(ts, lo, hi)

FourWheelerKeywords ==
  {"FOUR WHEELER", "LIGHT MOTOR VEHICLE", "MEDIUM MOTOR VEHICLE",
   "HEAVY MOTOR VEHICLE", "GOODS VEHICLE", "PASSENGER VEHICLE",
   "BUS", "TRAC", "EARTH MOVING", "DUMPER", "CRANE"}

\* map_vehicle_category of sql_app on the names the store holds; the names
\* of the model are in upper case already
map_vehicle_category(category_name) ==
  LET pieces == Range(Strip(NameTokens(category_name)))
  IN IF "TWO WHEELER" \in pieces THEN "2W"
     ELSE IF "THREE WHEELER" \in pieces THEN "3W"
     ELSE IF pieces \cap FourWheelerKeywords # {} THEN "4W"
     ELSE "Other"

\* a cleaning step that stored the bucket of the name
MappedBeforeStoring(c) == map_vehicle_category(c)

\* astype(str).str.replace(',', '', regex=False).str.strip() on an object
\* column: a missing name becomes the text 'nan', commas go, and so do the
\* blanks at both ends
CleanName(c) ==
  IF c = NullName THEN "nan" ELSE Join(Strip(StrReplace(NameTokens(c), ",")))

\* the cleaning loop; the name column (the second) is the textual one
Clean(df) ==
  [df EXCEPT !.rows =
     [i \in DOMAIN df.rows |->
        [k \in DOMAIN df.rows[i] |->
           IF k = 2 THEN CleanName(df.rows[i][k]) ELSE df.rows[i][k]]]]

\* year_col_name: the index of the first 'Calendar Year_YYYY' column, 0 for None
FirstYearCol(df) ==
  LET ix == ColumnsWhere(df.cols, "year")
  IN IF ix = <<>> THEN 0 ELSE ix[1]

\* df_to_insert of the Calendar Year branch
CalendarFrame(df, y_axis_option) ==
  LET k == FirstYearCol(df)
  IN [i \in DOMAIN df.rows |->
        [Name |-> df.rows[i][2],
         DataType |-> y_axis_option,
         Year |-> ParseInt(df.cols[k][Len(df.cols[k])]),
         Registrations |-> df.rows[i][k]]]

\* pd.to_numeric(..., errors='coerce').fillna(0)
FillNa0(v) == IF v = NaN THEN 0 ELSE v

NameIndex(df) ==
  LET ix == ColumnsWhere(df.cols, "name")
  IN IF ix = <<>> THEN 0 ELSE ix[1]

\* df_to_insert of the Month Wise branch: melt lists, for each month column
\* in turn, every row
MonthFrame(df, y_axis_option, year_val) ==
  LET month_cols == ColumnsWhere(df.cols, "month")
      n == NameIndex(df)
  IN Concat([j \in DOMAIN month_cols |->
        [i \in DOMAIN df.rows |->
           [Name |-> df.rows[i][n],
            DataType |-> y_axis_option,
            Year |-> year_val,
            Month |-> df.cols[month_cols[j]][2],
            MonthlyRegistrations |-> FillNa0(df.rows[i][month_cols[j]])]]])

\* nothing was handed to insert_data_into_db and nothing was reported
NoSubmission ==
  [called |-> FALSE, table_name |-> "none", batch |-> <<>>,
   warned |-> FALSE, saved_msg |-> FALSE, ret |-> "none"]

\* What scrape_table_data_to_db makes of the parsed tables: whether it calls
\* insert_data_into_db, with which frame for which table, and what it
\* reports: warned for the print 'Warning: Could not find ...', saved_msg
\* for the print 'Data saved to DB for ...', ret for the value returned
\* ("data_df" the selected table, "empty" pd.DataFrame()).  An exception
\* (iloc[:, 1] out of bounds, melt missing an id column) is caught by the
\* outer except, which returns the empty frame.
Submission(tables, y_axis_option, x_axis_option, year_val) ==
  LET b == BestIndex(tables)
      empty == [NoSubmission EXCEPT !.ret = "empty"]
      unshaped == [NoSubmission EXCEPT !.warned = TRUE, !.saved_msg = TRUE,
                                       !.ret = "data_df"]
      insert(table_name, batch) ==
        [called |-> TRUE, table_name |-> table_name, batch |-> batch,
         warned |-> FALSE, saved_msg |-> TRUE, ret |-> "data_df"]
  IN IF tables = <<>> \/ b = 0 THEN empty
     ELSE LET df == Clean(tables[b])
          IN IF x_axis_option = "Calendar Year"
             THEN IF FirstYearCol(df) = 0 THEN unshaped
                  ELSE IF Shape1(df) < 2 THEN empty
                  ELSE insert("annual_registrations",
                              CalendarFrame(df, y_axis_option))
             ELSE IF x_axis_option = "Month Wise"
             THEN IF NameIndex(df) = 0 \/ ColumnsWhere(df.cols, "month") = <<>>
                  THEN unshaped
                  ELSE IF SNoCol \notin Range(df.cols) THEN empty
                  ELSE insert("monthly_registrations",
                              MonthFrame(df, y_axis_option, year_val))
             ELSE [unshaped EXCEPT !.warned = FALSE]

\* no call of insert_data_into_db yet
NoInsert == [raised |-> "none", propagated |-> FALSE, conn |-> "none"]

\* an insert_data_into_db without its except clauses: the finally block
\* closes the connection and the exception goes to the caller
InsertCallUncaught(rows, batch, table_name, err) ==
  IF batch = <<>>
  THEN [rows |-> rows, raised |-> "none", propagated |-> FALSE, conn |-> "none"]
  ELSE IF err # "ok"
  THEN [rows |-> rows, raised |-> err, propagated |-> TRUE, conn |-> "closed"]
  ELSE IF ~NoViolation(rows, batch, table_name)
  THEN [rows |-> rows, raised |-> "IntegrityError", propagated |-> TRUE,
        conn |-> "closed"]
  ELSE [rows |-> rows \o batch, raised |-> "none", propagated |-> FALSE,
        conn |-> "closed"]

\* One call of insert_data_into_db(df, table_name) seen from its caller: the
\* rows of the table afterwards, the exception to_sql raised (err is an
\* error other than a constraint violation that the database meets, "ok"
\* for none), whether it left the function, and the connection at the
\* return.  An empty frame returns before the connection is opened.
InsertCall(rows, batch, table_name, err) ==
  IF batch = <<>>
  THEN [rows |-> rows, raised |-> "none", propagated |-> FALSE, conn |-> "none"]
  ELSE [rows |-> IF err = "ok" THEN insert_data_into_db(rows, batch, table_name)
                 ELSE rows,
        raised |-> IF err # "ok" THEN err
                   ELSE IF NoViolation(rows, batch, table_name) THEN "none"
                   ELSE "IntegrityError",
        propagated |-> FALSE,
        conn |-> "closed"]

\* The part of scrape_table_data_to_db after the tables were parsed: what
\* the two tables of the database hold afterwards.  db is the record
\* [annual, monthly, inserts, fault, last]: inserts counts the calls of
\* insert_data_into_db, fault is the error the database meets in this call,
\* last describes the last call.  An exception that left
\* insert_data_into_db would be caught by the outer except.
PersistTables(db, tables, y_axis_option, x_axis_option, year_val) ==
  LET s == Submission(tables, y_axis_option, x_axis_option, year_val)
      is_annual == s.table_name = "annual_registrations"
      c == InsertCall(IF is_annual THEN db.annual ELSE db.monthly,
                      s.batch, s.table_name, db.fault)
  IN IF ~s.called THEN db
     ELSE [db EXCEPT !.annual = IF is_annual THEN c.rows ELSE @,
                     !.monthly = IF is_annual THEN @ ELSE c.rows,
                     !.inserts = @ + 1,
                     !.last = [raised |-> c.raised, propagated |-> c.propagated,
                               conn |-> c.conn]]

\* a scrape that parses the page whatever its waits reported
ScrapeWithoutWaits(db, wait, tables, y_axis_option, x_axis_option, year_val) ==
  PersistTables(db, tables, y_axis_option, x_axis_option, year_val)

\* scrape_table_data_to_db(driver, y_axis_option, x_axis_option, year_val):
\* wait tells how the waits before the parse went ("rendered": all of them
\* succeeded), tables is what pd.read_html returned
scrape_table_data_to_db(db, wait, tables, y_axis_option, x_axis_option, year_val) ==
  IF wait # "rendered" THEN db
  ELSE PersistTables(db, tables, y_axis_option, x_axis_option, year_val)

\* an initialize_db that drops the table before it creates it
DropAndCreate(rows) == <<>>

\* initialize_db() of the harvester: CREATE TABLE IF NOT EXISTS keeps the
\* rows of a table that exists; a table that did not exist has no rows
initialize_db(rows) == rows

(***************************************************************************)
(* The remote dashboard: what its dropdowns list and what it renders.      *)
(***************************************************************************)
YAxisListed == <<"Maker", "Vehicle Category", "Fuel">>
XAxisListed == <<"Month Wise", "Calendar Year", "Financial Year">>
YearsListed == <<"2015", "2016", "2017">>
YearOrder == <<"2015", "2016", "2017", "2018">>
Entities == <<"A", "B">>
Months == <<"JAN", "FEB">>

Registered(name, y, year) ==
  IF name = "B" /\ year = "2017" THEN 0 ELSE IF name = "A" THEN 5 ELSE 7

MonthlyRegistered(name, y, year, m) ==
  IF name = "B" /\ m = "FEB" THEN 0 ELSE IF y = "Maker" THEN 3 ELSE 4

\* the year columns shown for the ticked years, in ascending order
Shown(T) == SelectSeq(YearOrder, LAMBDA y : y \in T)

SumSeq(s) ==
  LET F[i \in 0..Len(s)] == IF i = 0 THEN 0 ELSE F[i-1] + s[i]
  IN F[Len(s)]

\* the data table of a combination: S No, Name, one column per ticked year
\* (Calendar Year) or per month (Month Wise), TOTAL
DataTable(y, x, year, T) ==
  LET sh == Shown(T)
      cells(e) == IF x = "Calendar Year"
                  THEN [i \in DOMAIN sh |-> Registered(Entities[e], y, sh[i])]
                  ELSE [i \in DOMAIN Months |->
                          MonthlyRegistered(Entities[e], y, year, Months[i])]
  IN [cols |-> <<SNoCol, NameCol>>
               \o (IF x = "Calendar Year"
                   THEN [i \in DOMAIN sh |-> YearCol(sh[i])]
                   ELSE [i \in DOMAIN Months |-> MonthCol(Months[i])])
               \o <<TotalCol>>,
      rows |-> [e \in DOMAIN Entities |->
                  <<e, Entities[e]>> \o cells(e) \o <<SumSeq(cells(e))>>]]

\* a one-row formatting table the page embeds beside the data
AuxTable == [cols |-> <<<<"Report">>, <<"Unit">>>>, rows |-> <<<<1, "Actual">>>>]

RenderKinds == {"data", "aux_data", "aux_only", "empty"}

\* what pd.read_html returns for the rendered container
Render(kind, y, x, year, T) ==
  CASE kind = "data" -> <<DataTable(y, x, year, T)>>
    [] kind = "aux_data" -> <<AuxTable, DataTable(y, x, year, T)>>
    [] kind = "aux_only" -> <<AuxTable>>
    [] kind = "empty" -> <<>>

(***************************************************************************)
(* Dropdown controller.  ui is the record [panel, ticked]; o is how the    *)
(* waits of the call went: "ok" when every wait succeeded, otherwise the   *)
(* wait that timed out (the trigger never clickable, the panel never       *)
(* visible after the click, the option or label never clickable).          *)
(***************************************************************************)
Toggle(T, y) == IF y \in T THEN T \ {y} ELSE T \cup {y}

CallOutcomes == {"ok", "trigger_timeout", "panel_timeout", "option_timeout"}

\* every timeout and every abnormal rendering is a fault of the remote page
Cost(o) == IF o \in {"ok", "rendered", "data"} THEN 0 ELSE 1

\* select_dropdown_option(driver, dropdown_parent_id, option_text, name)
select_dropdown_option(ui, id, option_text, o) ==
  CASE o = "ok" ->
         [ret |-> TRUE, panel |-> "none",
          ticked |-> IF id = "yearList" THEN Toggle(ui.ticked, option_text)
                     ELSE ui.ticked]
    [] o = "trigger_timeout" ->
         [ret |-> FALSE, panel |-> ui.panel, ticked |-> ui.ticked]
    [] o = "panel_timeout" ->
         [ret |-> FALSE, panel |-> "none", ticked |-> ui.ticked]
    [] o = "option_timeout" ->
         [ret |-> FALSE, panel |-> id, ticked |-> ui.ticked]

\* a listing that returns the options whatever its waits reported
ListedDespiteTimeout(ui, id, listed, o) ==
  [ret |-> listed, panel |-> IF o = "trigger_timeout" THEN ui.panel ELSE id]

\* get_dropdown_options(driver, dropdown_parent_id, name): the panel of the
\* multi-select year list is not closed after its options were read
get_dropdown_options(ui, id, listed, o) ==
  CASE o = "ok" ->
         [ret |-> listed, panel |-> IF id = "yearList" THEN id ELSE "none"]
    [] o = "trigger_timeout" -> [ret |-> <<>>, panel |-> ui.panel]
    [] o = "panel_timeout" -> [ret |-> <<>>, panel |-> "none"]
    [] o = "option_timeout" -> [ret |-> <<>>, panel |-> id]

\* the finally block of select_and_unselect_year: open the panel, click the
\* label of the year, click the trigger again
UnselectYear(ui, year, o) ==
  CASE o = "ok" -> [panel |-> "none", ticked |-> Toggle(ui.ticked, year)]
    [] o = "trigger_timeout" -> [panel |-> ui.panel, ticked |-> ui.ticked]
    [] o = "panel_timeout" -> [panel |-> "none", ticked |-> ui.ticked]
    [] o = "option_timeout" -> [panel |-> "yearList", ticked |-> ui.ticked]

(***************************************************************************)
(* The dropdown controller statement by statement.  A call is the script    *)
(* of its waits and clicks in program order, cut where a wait that is not   *)
(* inside an inner try timed out.  A wait is WebDriverWait(...).until(...); *)
(* a click is element.click() on an element a wait has returned, and is     *)
(* taken to succeed; time.sleep is left out.                                *)
(***************************************************************************)
\* how the waits of one call end: TRUE for a wait that returned within its
\* timeout; body tells whether the click on the page body closed the panel
WaitPatterns ==
  [trigger : BOOLEAN, visible : BOOLEAN, option : BOOLEAN, filter : BOOLEAN,
   invisible : BOOLEAN, body : BOOLEAN]

\* a wait whose timeout leaves the try block of the function
Wait(on, ok) == [kind |-> "wait", on |-> on, does |-> "wait", ok |-> ok,
                 caught |-> FALSE]

\* a wait inside an inner try/except that prints and goes on
CaughtWait(on, ok) == [Wait(on, ok) EXCEPT !.caught = TRUE]

\* element.click(); does is what the click is for in the code: "open" and
\* "close" a panel, "pick" an option, "apply" a multi-selection
Click(on, does) == [kind |-> "click", on |-> on, does |-> does, ok |-> TRUE,
                    caught |-> FALSE]

\* the index of the first event that raises out of the script, 0 for none
FirstRaise(script) ==
  LET bad == { i \in DOMAIN script : ~script[i].ok /\ ~script[i].caught }
  IN IF bad = {} THEN 0 ELSE CHOOSE i \in bad : \A j \in bad : i <= j

\* what of a script is executed: all of it, or up to the wait that raised
Cut(script) ==
  IF FirstRaise(script) = 0 THEN script ELSE SubSeq(script, 1, FirstRaise(script))

\* dropdown_parent_id == LOCATORS["multi_select_year_dropdown_id"]
MultiSelect(id) == id = "yearList"

\* a multi-select branch that clicks Filter and then the trigger as well
FilterThenTrigger(filter_ok) ==
  <<CaughtWait("filter", filter_ok), Click("filter", "apply"),
    Click("trigger", "close")>>

\* the multi-select branch of select_dropdown_option: the 5 s wait for the
\* Filter button and its click, in a try whose bare except clicks the trigger
ApplyOrClose(filter_ok) ==
  <<CaughtWait("filter", filter_ok)>> \o
  (IF filter_ok THEN <<Click("filter", "apply")>>
   ELSE <<Click("trigger", "close")>>)

\* a closing check whose timeout leaves the function
CloseCheckRaising(invisible_ok) == <<Wait("invisible", invisible_ok)>>

\* the wait for the panel to become invisible, in a try whose except clicks
\* the page body
CloseCheck(invisible_ok) ==
  <<CaughtWait("invisible", invisible_ok)>> \o
  (IF invisible_ok THEN <<>> ELSE <<Click("body", "close")>>)

\* select_dropdown_option for one option text
SelectScript(id, w) ==
  <<Wait("trigger", w.trigger), Click("trigger", "open"),
    Wait("visible", w.visible), Wait("visible", w.visible),
    Wait("option", w.option), Click("option", "pick")>> \o
  (IF MultiSelect(id) THEN ApplyOrClose(w.filter) ELSE <<>>) \o
  CloseCheck(w.invisible)

\* get_dropdown_options: the panel of the multi-select list is not closed
ListScript(id, w) ==
  <<Wait("trigger", w.trigger), Click("trigger", "open"),
    Wait("visible", w.visible), Wait("options", w.option)>> \o
  (IF MultiSelect(id) THEN <<>>
   ELSE <<Click("trigger", "close")>> \o CloseCheck(w.invisible))

\* the try of the finally block of select_and_unselect_year
UnselectScript(w) ==
  <<Wait("trigger", w.trigger), Click("trigger", "open"),
    Wait("label", w.option), Click("label", "pick"),
    Click("trigger", "close")>>

\* the 5 s wait of handle_year_selection_calendar after the call, in a try
\* whose except passes
AfterUnselect(w) == <<CaughtWait("invisible", w.invisible)>>

ScriptOf(op, id, w) ==
  CASE op = "select" -> SelectScript(id, w)
    [] op = "list" -> ListScript(id, w)
    [] op = "unselect" -> UnselectScript(w)

Clicked(events, on) ==
  \E i \in DOMAIN events : events[i].kind = "click" /\ events[i].on = on

\* the panel after the call: a panel that was opened stays open when the
\* call leaves before its closing click or when the closing is not seen
PanelAfter(ui, op, id, w, script) ==
  LET k == FirstRaise(script)
  IN IF k = 1 THEN ui.panel
     ELSE IF k # 0 THEN (IF script[k].on = "visible" THEN "none" ELSE id)
     ELSE IF op = "list" /\ MultiSelect(id) THEN id
     ELSE IF w.invisible THEN "none"
     ELSE IF op # "unselect" /\ w.body THEN "none"
     ELSE id

\* a list whose selected item is unselected by a click on it
ClickUnselects(current, option_text) ==
  IF current = option_text THEN "none" ELSE option_text

\* option_element.click() on an item of a single-select list: the item
\* clicked is the selected one afterwards, whatever was selected
ClickSelects(current, option_text) == option_text

\* one call of the controller on the page ui = [panel, ticked, selected]:
\* what it did, what it returned and what the page is like afterwards.  A
\* click on an option of a single-select list makes it the selected one, a
\* click on a label of the multi-select list ticks or unticks it.
ControllerCall(ui, op, id, option_text, w) ==
  LET script == ScriptOf(op, id, w)
      events == Cut(script) \o (IF op = "unselect" THEN AfterUnselect(w) ELSE <<>>)
      raised == FirstRaise(script) # 0
  IN [op |-> op, id |-> id, option_text |-> option_text,
      events |-> events,
      ret |-> CASE op = "select" -> IF raised THEN "False" ELSE "True"
                [] op = "list" -> IF raised THEN "[]" ELSE "option_texts"
                [] op = "unselect" -> "None",
      panel |-> PanelAfter(ui, op, id, w, script),
      selected |-> IF op = "select" /\ ~MultiSelect(id) /\ Clicked(events, "option")
                   THEN ClickSelects(ui.selected, option_text) ELSE ui.selected,
      ticked |-> IF \/ op = "select" /\ MultiSelect(id) /\ Clicked(events, "option")
                    \/ op = "unselect" /\ Clicked(events, "label")
                 THEN Toggle(ui.ticked, option_text) ELSE ui.ticked]


(***************************************************************************)
(* main of the SQL harvester, one action per step of its loops.            *)
(***************************************************************************)
target_y_axis_options == <<"Vehicle Category", "Maker">>
target_x_axis_options == {"Month Wise", "Calendar Year"}
\* [str(y) for y in range(2016, datetime.now().year + 1)], cut to YearStrings
target_years == {"2016", "2017", "2018"}

Ui == [panel |-> panel, ticked |-> ticked]
Db == [annual |-> annual, monthly |-> monthly, inserts |-> inserts,
       fault |-> "ok", last |-> lastInsert]
NoRefresh == [x |-> "none", year |-> "none", ticked |-> {}]
NoScrape == [wait |-> "none", tables |-> <<>>]

Spend(o) == faults + Cost(o) <= MaxFaults /\ faults' = faults + Cost(o)

YearHead(x) == IF x = "Calendar Year" THEN "cy_select" ELSE "mw_select"

\* a year loop that takes the year it has just scraped once more
RetryYear(k) == k

\* for year_to_scrape in relevant_year_options: the body is done, the next
\* year follows
NextYear(k) == k + 1

\* a Month Wise loop that breaks at a failed year selection
MwBreakOnSelectFailure(k) == Len(years) + 1

\* a Month Wise loop that tries a failed year selection again
MwRetryOnSelectFailure(k) == k

\* what a failed year selection of the Month Wise loop does: continue
MwAfterSelectFailure(k) == k + 1

\* a refresh block whose failure is passed over: the scrape follows
RefreshFailureIgnored(x) == IF x = "Calendar Year" THEN "cy_scrape" ELSE "mw_scrape"

\* what a failed refresh does in either loop: skip to the next year
AfterRefreshFailure(x) == IF x = "Calendar Year" THEN "cy_unselect" ELSE "mw_select"

CurY == target_y_axis_options[yi]
CurX == xopts[xi]
CurYear == years[ki]

\* main up to setup_driver: initialize_db(), then the browser session
StartRun ==
  /\ pc = "idle"
  /\ run < MaxRuns
  /\ run' = run + 1
  /\ annual' = initialize_db(annual)
  /\ monthly' = initialize_db(monthly)
  /\ prevGot' = curGot
  /\ prevDb' = <<annual, monthly>>
  /\ prevEnded' = ended
  /\ curGot' = {}
  /\ reached' = {}
  /\ refreshFailed' = {}
  /\ skipped' = {}
  /\ refreshed' = NoRefresh
  /\ fetched_year_options' = <<>>
  /\ lastScrape' = NoScrape
  /\ ticked' = {}
  /\ panel' = "none"
  /\ yi' = 0 /\ xi' = 0 /\ ki' = 0 /\ xopts' = <<>> /\ years' = <<>>
  /\ \E o \in {"ok", "setup_failed"} :
       /\ Spend(o)
       /\ IF o = "ok"
          THEN driver' = "open" /\ pc' = "load" /\ ended' = "none"
          ELSE driver' = "none" /\ pc' = "idle" /\ ended' = "setup_failed"
  /\ UNCHANGED <<inserts, lastInsert, inVars, ctlVars, dashVars, auxVars>>

\* a main that returns and leaves the browser session as it is
EndRunLeavingSession(how) ==
  /\ pc' = "idle"
  /\ driver' = driver
  /\ ended' = how

\* how main ends: the finally block quits the driver
EndRun(how) ==
  /\ pc' = "idle"
  /\ driver' = "quit"
  /\ ended' = how

\* driver.get and the wait for the initial loading overlay
Load ==
  /\ pc = "load"
  /\ \E o \in {"ok", "overlay_timeout"} :
       /\ Spend(o)
       /\ IF o = "ok"
          THEN pc' = "list_y" /\ UNCHANGED <<driver, ended>>
          ELSE EndRun("load_failed")
  /\ UNCHANGED <<dbVars, inVars, ctlVars, dashVars, auxVars, loopVars, uiVars, histVars, run, prevGot,
                 prevDb, prevEnded>>

\* y_axis_options_available = get_dropdown_options(...); an empty list returns
ListY ==
  /\ pc = "list_y"
  /\ \E o \in CallOutcomes :
       LET r == get_dropdown_options(Ui, "yaxisVar", YAxisListed, o)
       IN /\ Spend(o)
          /\ panel' = r.panel
          /\ IF r.ret = <<>>
             THEN EndRun("no_y_options") /\ yi' = yi
             ELSE pc' = "sel_y" /\ yi' = 1 /\ UNCHANGED <<driver, ended>>
  /\ UNCHANGED <<dbVars, inVars, ctlVars, dashVars, auxVars, xi, ki, xopts, years, ticked, histVars, run,
                 prevGot, prevDb, prevEnded>>

\* head of the y-axis loop: the option is skipped when it is not listed or
\* cannot be selected
SelY ==
  /\ pc = "sel_y"
  /\ yi <= Len(target_y_axis_options)
  /\ \E o \in CallOutcomes :
       LET r == select_dropdown_option(Ui, "yaxisVar", CurY, o)
       IN IF CurY \notin Range(YAxisListed)
          THEN /\ faults' = faults
               /\ o = "ok"
               /\ pc' = "sel_y" /\ yi' = yi + 1
               /\ skipped' = skipped \cup {<<CurY>>}
               /\ UNCHANGED uiVars
          ELSE /\ Spend(o)
               /\ panel' = r.panel /\ ticked' = r.ticked
               /\ IF r.ret
                  THEN pc' = "list_x" /\ yi' = yi /\ skipped' = skipped
                  ELSE /\ pc' = "sel_y" /\ yi' = yi + 1
                       /\ skipped' = skipped \cup {<<CurY>>}
  /\ UNCHANGED <<dbVars, inVars, ctlVars, dashVars, auxVars, xi, ki, xopts, years, refreshed, lastScrape,
                 reached, refreshFailed, curGot, runVars,
                 fetched_year_options>>

\* fetched_x_axis_options and relevant_x_axis_options
ListX ==
  /\ pc = "list_x"
  /\ \E o \in CallOutcomes :
       LET r == get_dropdown_options(Ui, "xaxisVar", XAxisListed, o)
           relevant == SelectSeq(r.ret, LAMBDA opt : opt \in target_x_axis_options)
       IN /\ Spend(o)
          /\ panel' = r.panel
          /\ IF relevant = <<>>
             THEN /\ pc' = "sel_y" /\ yi' = yi + 1
                  /\ xopts' = <<>> /\ xi' = 0
                  /\ skipped' = skipped \cup {<<CurY>>}
             ELSE /\ pc' = "sel_x" /\ yi' = yi
                  /\ xopts' = relevant /\ xi' = 1
                  /\ skipped' = skipped
  /\ UNCHANGED <<dbVars, inVars, ctlVars, dashVars, auxVars, ki, years, ticked, refreshed, lastScrape,
                 reached, refreshFailed, curGot, runVars,
                 fetched_year_options>>

\* head of the x-axis loop
SelX ==
  /\ pc = "sel_x"
  /\ xi <= Len(xopts)
  /\ \E o \in CallOutcomes :
       LET r == select_dropdown_option(Ui, "xaxisVar", CurX, o)
       IN /\ Spend(o)
          /\ panel' = r.panel /\ ticked' = r.ticked
          /\ IF r.ret
             THEN pc' = "list_years" /\ xi' = xi /\ skipped' = skipped
             ELSE /\ pc' = "sel_x" /\ xi' = xi + 1
                  /\ skipped' = skipped \cup {<<CurY, CurX>>}
  /\ UNCHANGED <<dbVars, inVars, ctlVars, dashVars, auxVars, yi, ki, xopts, years, refreshed, lastScrape,
                 reached, refreshFailed, curGot, runVars,
                 fetched_year_options>>

YearDropdown(x) == IF x = "Calendar Year" THEN "yearList" ELSE "selectedYear"

\* what a year dropdown lists: the years of the dashboard or, as a fault of
\* the remote page, a year before the configured range only
YearListings == {YearsListed, <<"2015">>}

ListingCost(listed) == IF listed = YearsListed THEN 0 ELSE 1

\* a year loop over every option the dropdown lists
AllYearOptions(fetched) == fetched

\* relevant_year_options = [opt for opt in fetched_year_options
\*                          if opt in target_years]
relevant_year_options(fetched) ==
  SelectSeq(fetched, LAMBDA opt : opt \in target_years)

\* the start of handle_year_selection_calendar / _month_wise
ListYears ==
  /\ pc = "list_years"
  /\ \E o \in CallOutcomes : \E listed \in YearListings :
       LET r == get_dropdown_options(Ui, YearDropdown(CurX), listed, o)
           relevant == relevant_year_options(r.ret)
       IN /\ faults + Cost(o) + ListingCost(listed) <= MaxFaults
          /\ faults' = faults + Cost(o) + ListingCost(listed)
          /\ fetched_year_options' = r.ret
          /\ panel' = r.panel
          /\ IF relevant = <<>>
             THEN /\ pc' = "sel_x" /\ xi' = xi + 1
                  /\ years' = <<>> /\ ki' = 0
                  /\ skipped' = skipped \cup {<<CurY, CurX>>}
             ELSE /\ pc' = YearHead(CurX) /\ xi' = xi
                  /\ years' = relevant /\ ki' = 1
                  /\ skipped' = skipped
  /\ UNCHANGED <<dbVars, inVars, ctlVars, dashVars, auxVars, yi, xopts, ticked, refreshed, lastScrape,
                 reached, refreshFailed, curGot, runVars>>

RefreshOutcomes == {"ok", "button_timeout", "overlay_timeout"}

\* the refresh block: wait for the button, click it, wait for the overlay
RefreshStep(onFailure) ==
  \E o \in RefreshOutcomes :
    /\ Spend(o)
    /\ refreshed' = IF o = "button_timeout" THEN refreshed
                    ELSE [x |-> CurX, year |-> CurYear, ticked |-> ticked]
    /\ refreshFailed' = IF o = "ok" THEN refreshFailed
                        ELSE refreshFailed \cup {<<CurY, CurX, CurYear>>}
    /\ pc' = IF o = "ok"
             THEN (IF CurX = "Calendar Year" THEN "cy_scrape" ELSE "mw_scrape")
             ELSE onFailure

ScrapeWaits == {"rendered", "overlay_timeout", "no_container", "container_hidden"}

\* what the database can answer to_sql with besides a constraint violation
InsertErrors == {"ok", "OperationalError"}

\* the calls of insert_data_into_db the runs can make: one for each
\* combination of each run; the count of the calls stops there
InsertsCeiling ==
  MaxRuns * Len(target_y_axis_options) * Cardinality(target_x_axis_options)
          * Len(YearsListed)

Counted(n) == IF n > InsertsCeiling THEN InsertsCeiling ELSE n

\* save_html_backup and scrape_table_data_to_db for the current combination
ScrapeStep ==
  \E w \in ScrapeWaits : \E kind \in RenderKinds : \E e \in InsertErrors :
    LET tables == Render(kind, CurY, CurX, CurYear, ticked)
        db == scrape_table_data_to_db([Db EXCEPT !.fault = e], w, tables,
                                      CurY, CurX, ParseInt(CurYear))
    IN /\ w # "rendered" => kind = "data"
       /\ e # "ok" => w = "rendered" /\ kind = "data"
       /\ faults + Cost(w) + Cost(kind) + Cost(e) <= MaxFaults
       /\ faults' = faults + Cost(w) + Cost(kind) + Cost(e)
       /\ annual' = db.annual
       /\ monthly' = db.monthly
       /\ inserts' = Counted(db.inserts)
       /\ lastInsert' = db.last
       /\ lastScrape' = [wait |-> w, tables |-> tables]
       /\ curGot' = IF w = "rendered" /\ BestIndex(tables) # 0
                    THEN curGot \cup {<<CurY, CurX, CurYear,
                                         tables[BestIndex(tables)], e>>}
                    ELSE curGot

\* Month Wise loop: select_dropdown_option on the single-select year list
MwSelect ==
  /\ pc = "mw_select"
  /\ ki <= Len(years)
  /\ \E o \in CallOutcomes :
       LET r == select_dropdown_option(Ui, "selectedYear", CurYear, o)
       IN /\ Spend(o)
          /\ panel' = r.panel /\ ticked' = r.ticked
          /\ IF r.ret
             THEN pc' = "mw_refresh" /\ ki' = ki
             ELSE pc' = "mw_select" /\ ki' = MwAfterSelectFailure(ki)
  /\ reached' = reached \cup {<<CurY, CurX, CurYear>>}
  /\ UNCHANGED <<dbVars, inVars, ctlVars, dashVars, auxVars, yi, xi, xopts, years, refreshed, lastScrape,
                 refreshFailed, skipped, curGot, runVars,
                 fetched_year_options>>

MwRefresh ==
  /\ pc = "mw_refresh"
  /\ RefreshStep(AfterRefreshFailure(CurX))
  /\ ki' = IF pc' = "mw_scrape" THEN ki ELSE ki + 1
  /\ UNCHANGED <<dbVars, inVars, ctlVars, dashVars, auxVars, yi, xi, xopts, years, uiVars, lastScrape,
                 reached, skipped, curGot, runVars,
                 fetched_year_options>>

MwScrape ==
  /\ pc = "mw_scrape"
  /\ ScrapeStep
  /\ pc' = "mw_select"
  /\ ki' = NextYear(ki)
  /\ UNCHANGED <<inVars, ctlVars, dashVars, auxVars, yi, xi, xopts, years, uiVars, refreshed, reached,
                 refreshFailed, skipped, runVars,
                 fetched_year_options>>

\* Calendar Year loop, select_and_unselect_year: the selection
CySelect ==
  /\ pc = "cy_select"
  /\ ki <= Len(years)
  /\ \E o \in CallOutcomes :
       LET r == select_dropdown_option(Ui, "yearList", CurYear, o)
       IN /\ Spend(o)
          /\ panel' = r.panel /\ ticked' = r.ticked
          /\ pc' = IF r.ret THEN "cy_refresh" ELSE "cy_unselect"
  /\ reached' = reached \cup {<<CurY, CurX, CurYear>>}
  /\ UNCHANGED <<dbVars, inVars, ctlVars, dashVars, auxVars, loopVars, refreshed, lastScrape,
                 refreshFailed, skipped, curGot, runVars,
                 fetched_year_options>>

CyRefresh ==
  /\ pc = "cy_refresh"
  /\ RefreshStep(AfterRefreshFailure(CurX))
  /\ UNCHANGED <<dbVars, inVars, ctlVars, dashVars, auxVars, loopVars, uiVars, lastScrape, reached,
                 skipped, curGot, runVars,
                 fetched_year_options>>

CyScrape ==
  /\ pc = "cy_scrape"
  /\ ScrapeStep
  /\ pc' = "cy_unselect"
  /\ UNCHANGED <<inVars, ctlVars, dashVars, auxVars, loopVars, uiVars, refreshed, reached, refreshFailed,
                 skipped, runVars,
                 fetched_year_options>>

\* the finally block of select_and_unselect_year, then the 5 s wait for the
\* panel in handle_year_selection_calendar, whose timeout is passed over
CyUnselect ==
  /\ pc = "cy_unselect"
  /\ \E o \in CallOutcomes :
       LET r == UnselectYear(Ui, CurYear, o)
       IN /\ Spend(o)
          /\ panel' = r.panel /\ ticked' = r.ticked
  /\ pc' = "cy_select"
  /\ ki' = NextYear(ki)
  /\ UNCHANGED <<dbVars, inVars, ctlVars, dashVars, auxVars, yi, xi, xopts, years, histVars, runVars>>

\* the year loop is exhausted: the handler returns to the x-axis loop
NextXAxis ==
  /\ pc \in {"cy_select", "mw_select"}
  /\ ki > Len(years)
  /\ pc' = "sel_x"
  /\ xi' = xi + 1
  /\ ki' = 0 /\ years' = <<>>
  /\ UNCHANGED <<dbVars, inVars, ctlVars, dashVars, auxVars, yi, xopts, uiVars, faults, histVars, runVars>>

\* the x-axis loop is exhausted
NextYAxis ==
  /\ pc = "sel_x"
  /\ xi > Len(xopts)
  /\ pc' = "sel_y"
  /\ yi' = yi + 1
  /\ xi' = 0 /\ xopts' = <<>>
  /\ UNCHANGED <<dbVars, inVars, ctlVars, dashVars, auxVars, ki, years, uiVars, faults, histVars, runVars>>

\* the y-axis loop is exhausted: finally, driver.quit()
Finish ==
  /\ pc = "sel_y"
  /\ yi > Len(target_y_axis_options)
  /\ EndRun("loop_end")
  /\ UNCHANGED <<dbVars, inVars, ctlVars, dashVars, auxVars, loopVars, uiVars, faults, histVars, run,
                 prevGot, prevDb, prevEnded>>

\* the process is killed while main runs
Interrupt ==
  /\ pc # "idle"
  /\ faults < MaxFaults
  /\ faults' = faults + 1
  /\ pc' = "idle"
  /\ ended' = "interrupted"
  /\ UNCHANGED <<dbVars, inVars, ctlVars, dashVars, auxVars, loopVars, uiVars, histVars, run, driver,
                 prevGot, prevDb, prevEnded>>

Init ==
  /\ annual = <<>> /\ monthly = <<>> /\ inserts = 0 /\ lastInsert = NoInsert
  /\ b1 = <<>> /\ b2 = <<>> /\ step = 0
  /\ parsed = <<>> /\ x_mode = "none" /\ best = 0 /\ made = NoSubmission
  /\ estep = 0
  /\ ControllerAtRest /\ DashboardAtRest /\ AuxAtRest
  /\ pc = "idle" /\ run = 0 /\ driver = "none"
  /\ yi = 0 /\ xi = 0 /\ ki = 0 /\ xopts = <<>> /\ years = <<>>
  /\ ticked = {} /\ panel = "none" /\ faults = 0
  /\ fetched_year_options = <<>> /\ refreshed = NoRefresh /\ lastScrape = NoScrape
  /\ reached = {} /\ refreshFailed = {} /\ skipped = {} /\ ended = "none"
  /\ curGot = {} /\ prevGot = {} /\ prevDb = <<<<>>, <<>>>> /\ prevEnded = "none"

Next ==
  \/ StartRun \/ Load \/ ListY \/ SelY \/ ListX \/ SelX \/ ListYears
  \/ MwSelect \/ MwRefresh \/ MwScrape
  \/ CySelect \/ CyRefresh \/ CyScrape \/ CyUnselect
  \/ NextXAxis \/ NextYAxis \/ Finish \/ Interrupt

Spec == Init /\ [][Next]_vars

\* the statements of main and of the functions it calls, "idle" outside main
Pcs ==
  {"idle", "load", "list_y", "sel_y", "list_x", "sel_x", "list_years",
   "mw_select", "mw_refresh", "mw_scrape",
   "cy_select", "cy_refresh", "cy_scrape", "cy_unselect"}

\* where main stands: the statement and the three loop indices
Position == <<pc, yi, xi, ki>>

\* main, once started, is at a statement that returns, times out or raises:
\* it moves to another statement or to another turn of a loop
MainMoves ==
  /\ pc # "idle"
  /\ pc' \in Pcs
  /\ yi' \in 0..(Len(target_y_axis_options) + 1)
  /\ xi' \in 0..(Len(XAxisListed) + 1)
  /\ ki' \in 0..(Len(YearsListed) + 1)

\* the harvester under a scheduler that lets a started main run on
LiveSpec == Spec /\ WF_Position(MainMoves)

(***************************************************************************)
(* migrate_csv_to_sql.py.  A CSV file is the record [y, x, year, table]:   *)
(* the file 'Y_<y>_X_<x>_Year_<year>.csv' the CSV harvester wrote for a     *)
(* combination, and the table read from it.                                *)
(***************************************************************************)
\* df_type: "Vehicle Category" when 'Y_Vehicle_Category_' is in the file name
DfType(f) == IF f.y = "Vehicle Category" THEN "Vehicle Category" ELSE "Manufacturer"

\* df.rename(columns={col: 'Name' ...}): the column holding 'Maker_Maker',
\* resp. 'Vehicle Category_Vehicle Category', becomes 'Name'
RenameName(df, df_type) ==
  [df EXCEPT !.cols =
     [i \in DOMAIN df.cols |->
        IF \/ df_type = "Manufacturer" /\ df.cols[i] = MakerCol
           \/ df_type = "Vehicle Category" /\ df.cols[i] = CategoryCol
        THEN NameCol ELSE df.cols[i]]]

\* df_to_insert of the annual branch after dropna and the filter > 0
AnnualMigrationFrame(f) ==
  LET df == RenameName(f.table, DfType(f))
      year_cols == ColumnsWhere(df.cols, "year")
      n == NameIndex(df)
      melted == Concat([j \in DOMAIN year_cols |->
                  [i \in DOMAIN df.rows |->
                     [Name |-> df.rows[i][n],
                      DataType |-> DfType(f),
                      Year |-> ParseInt(df.cols[year_cols[j]][2]),
                      Registrations |-> FillNa0(df.rows[i][year_cols[j]])]]])
  IN IF n = 0 \/ year_cols = <<>> THEN <<>>
     ELSE SelectSeq(melted, LAMBDA r : r.Name # NullName /\ r.Registrations > 0)

\* df_to_insert of the monthly branch after dropna and the filter > 0
MonthlyMigrationFrame(f) ==
  LET df == RenameName(f.table, DfType(f))
      month_cols == ColumnsWhere(df.cols, "month")
      n == NameIndex(df)
      melted == Concat([j \in DOMAIN month_cols |->
                  [i \in DOMAIN df.rows |->
                     [Name |-> df.rows[i][n],
                      DataType |-> DfType(f),
                      Year |-> ParseInt(f.year),
                      Month |-> df.cols[month_cols[j]][2],
                      MonthlyRegistrations |->
                        FillNa0(df.rows[i][month_cols[j]])]]])
  IN IF n = 0 \/ month_cols = <<>> THEN <<>>
     ELSE SelectSeq(melted,
                    LAMBDA r : r.Name # NullName /\ r.MonthlyRegistrations > 0)

\* an initialization that keeps the tables it finds
KeepTables(rows) == rows

\* initialize_db(conn) of the migration: DROP TABLE IF EXISTS, then CREATE
\* TABLE; the table is empty whatever it held
DropTables(rows) == <<>>

\* the loop over the files of one kind, from the table as initialize_db
\* left it: a frame that is not empty is written with to_sql, whose
\* exception skips the file
MigrateFiles(rows, files, table_name) ==
  LET F[i \in 0..Len(files)] ==
        IF i = 0 THEN rows
        ELSE LET batch == IF table_name = "annual_registrations"
                          THEN AnnualMigrationFrame(files[i])
                          ELSE MonthlyMigrationFrame(files[i])
             IN IF batch = <<>> THEN F[i-1]
                ELSE ToSql(F[i-1], batch, table_name)
  IN F[Len(files)]

\* migrate_csvs(): initialize_db drops and recreates both tables, then the
\* Calendar Year files and the Month Wise files of the listing are migrated
migrate_csvs(db, listing) ==
  [annual |-> MigrateFiles(DropTables(db.annual),
                           SelectSeq(listing, LAMBDA f : f.x = "Calendar Year"),
                           "annual_registrations"),
   monthly |-> MigrateFiles(DropTables(db.monthly),
                            SelectSeq(listing, LAMBDA f : f.x = "Month Wise"),
                            "monthly_registrations")]

(***************************************************************************)
(* The store under its three writers: initialize_db and the normalizer of  *)
(* the harvester, applied to tables of a small set, and migrate_csvs,      *)
(* applied to listings of CSV files of a small set.                        *)
(***************************************************************************)
\* a table S No, <name column>, <value columns>, TOTAL from (name, values) pairs
MakeTable(nameCol, valueCols, entries) ==
  [cols |-> <<SNoCol, nameCol>> \o valueCols \o <<TotalCol>>,
   rows |-> [i \in DOMAIN entries |->
               <<i, entries[i][1]>> \o entries[i][2] \o <<0>>]]

\* the year of the combinations persisted under StoreSpec
StoreYears == {"2016"}

CalendarInputs ==
  { MakeTable(NameCol, <<YearCol(y)>>, e) :
      y \in StoreYears,
      e \in { << <<"A", <<5>>>>, <<"B", <<0>>>> >>,
              << <<"A", <<7>>>>, <<"B", <<5>>>> >>,
              << <<"A", <<5>>>>, <<"A", <<7>>>> >>,
              << <<NullName, <<5>>>>, <<"B", <<NaN>>>> >>,
              << <<NullName, <<5>>>>, <<"A", <<0>>>> >>,
              << <<"A", <<5>>>>, <<"TWO WHEELER(NT)", <<5>>>>,
                 <<"BUS, SCHOOL", <<7>>>> >> } }

MonthCols == <<MonthCol("JAN"), MonthCol("FEB")>>

MonthInputs ==
  { MakeTable(NameCol, MonthCols, << <<"A", <<3, 0>>>>, <<"B", <<NaN, 3>>>> >>),
    MakeTable(NameCol, MonthCols, << <<"A", <<4, 4>>>>, <<"A", <<1, 1>>>> >>),
    MakeTable(MakerCol, MonthCols, << <<"A", <<3, 3>>>>, <<"B", <<3, 3>>>> >>),
    [cols |-> <<NameCol>> \o MonthCols,
     rows |-> << <<"A", 3, 3>>, <<"B", 3, 3>> >>] }

CsvFiles ==
  { [y |-> "Maker", x |-> "Calendar Year", year |-> "2016",
     table |-> MakeTable(MakerCol, <<YearCol("2016")>>,
                         << <<"A", <<5>>>>, <<"B", <<0>>>> >>)],
    [y |-> "Maker", x |-> "Calendar Year", year |-> "2017",
     table |-> MakeTable(MakerCol, <<YearCol("2016"), YearCol("2017")>>,
                         << <<"A", <<5, 6>>>>, <<"B", <<NaN, 7>>>> >>)],
    [y |-> "Vehicle Category", x |-> "Calendar Year", year |-> "2016",
     table |-> MakeTable(CategoryCol, <<YearCol("2016")>>,
                         << <<"A", <<5>>>>, <<NullName, <<7>>>> >>)],
    [y |-> "Vehicle Category", x |-> "Calendar Year", year |-> "2017",
     table |-> MakeTable(MakerCol, <<YearCol("2017")>>,
                         << <<"A", <<5>>>>, <<"B", <<7>>>> >>)],
    [y |-> "Vehicle Category", x |-> "Month Wise", year |-> "2016",
     table |-> MakeTable(CategoryCol, MonthCols,
                         << <<"A", <<3, 0>>>>, <<"B", <<NaN, 4>>>> >>)],
    [y |-> "Maker", x |-> "Month Wise", year |-> "2017",
     table |-> MakeTable(MakerCol, MonthCols,
                         << <<"A", <<2, 2>>>>, <<"A", <<4, 0>>>> >>)] }

\* the listings os.listdir can give: distinct files, in any order
Listings ==
  { l \in SeqsUpTo(CsvFiles, MaxFiles) : \A i, j \in DOMAIN l : i # j => l[i] # l[j] }

\* initialize_db() at the start of a harvester run
InitializeDb ==
  /\ annual' = initialize_db(annual)
  /\ monthly' = initialize_db(monthly)
  /\ UNCHANGED <<inserts, lastInsert, inVars, ctlVars, dashVars, auxVars, pc, loopVars, uiVars, faults,
                 histVars, runVars>>

\* the harvester extracts a table for a combination and persists it
Persist ==
  \E y \in Range(target_y_axis_options) : \E x \in target_x_axis_options :
  \E year \in StoreYears :
  \E df \in (IF x = "Calendar Year" THEN CalendarInputs ELSE MonthInputs) :
    LET db == PersistTables(Db, <<df>>, y, x, ParseInt(year))
    IN /\ annual' = db.annual
       /\ monthly' = db.monthly
       /\ UNCHANGED <<inserts, lastInsert, inVars, ctlVars, dashVars, auxVars, pc, loopVars, uiVars, faults,
                      histVars, runVars>>

\* a run of migrate_csv_to_sql.py over the CSV directory
MigrateCsvs ==
  \E listing \in Listings :
    LET db == migrate_csvs(Db, listing)
    IN /\ annual' = db.annual
       /\ monthly' = db.monthly
       /\ UNCHANGED <<inserts, lastInsert, inVars, ctlVars, dashVars, auxVars, pc, loopVars, uiVars, faults,
                      histVars, runVars>>

StoreNext == InitializeDb \/ Persist \/ MigrateCsvs

StoreSpec == Init /\ [][StoreNext]_vars

(***************************************************************************)
(* The CSV harvester's output directory and its migration.  The directory  *)
(* is the sequence of its files [name, table, writes] in the order         *)
(* os.listdir gives them; the table of a file is the frame to_csv wrote,   *)
(* writes tells whether the file was written once or more often.  The page *)
(* renders for a combination the table CsvFiles has for it.                *)
(***************************************************************************)
MaxDir == 2

\* the characters of an option text, the runs of letters and digits each
\* standing as one piece
OptionChars(opt) ==
  CASE opt = "Vehicle Category" -> <<"Vehicle", " ", "Category">>
    [] opt = "Calendar Year" -> <<"Calendar", " ", "Year">>
    [] opt = "Month Wise" -> <<"Month", " ", "Wise">>
    [] OTHER -> <<opt>>

\* f"Y_{y_axis_option}_X_{x_axis_option}_Year_{year_to_scrape}"
combination_name(y, x, year) ==
  <<"Y", "_">> \o OptionChars(y) \o <<"_", "X", "_">> \o OptionChars(x)
    \o <<"_", "Year", "_", year>>

\* "".join([c if c.isalnum() else "_" for c in combination_name])
safe_combination_name(ts) ==
  Join([i \in DOMAIN ts |-> IF ts[i] \in {" ", "_"} THEN "_" ELSE ts[i]])

\* os.path.join(OUTPUT_DIR, f"{safe_combination_name}.csv")
output_filename(y, x, year) ==
  "vahan_data/" \o safe_combination_name(combination_name(y, x, year)) \o ".csv"

\* a write that opens the file for appending
AppendCsv(existing, data_df) ==
  [data_df EXCEPT !.rows = existing.rows \o data_df.rows]

\* data_df.to_csv(output_filename, index=False, encoding='utf-8'): the file
\* is opened for writing, what it held is gone
ToCsv(existing, data_df) == data_df

InsertAt(seq, pos, e) ==
  SubSeq(seq, 1, pos - 1) \o <<e>> \o SubSeq(seq, pos, Len(seq))

Combinations ==
  [y : Range(target_y_axis_options), x : target_x_axis_options,
   year : {"2016", "2017"}]

\* what the file-name tests of migrate_csvs find in the name of a file the
\* harvester wrote: the category axis, the time axis and the year
FileRecord(entry) ==
  LET c == CHOOSE c \in Combinations :
             output_filename(c.y, c.x, c.year) = entry.name
  IN [y |-> c.y, x |-> c.x, year |-> c.year, table |-> entry.table]

\* scrape_table_data(driver, combination_name) with a table found: the
\* file of the combination is written; a new file takes some place in the
\* order of the directory
CsvScrape ==
  \E f \in CsvFiles :
    LET name == output_filename(f.y, f.x, f.year)
        at == {i \in DOMAIN outdir : outdir[i].name = name}
    IN /\ IF at # {}
          THEN outdir' = [i \in DOMAIN outdir |->
                            IF i \in at
                            THEN [name |-> name,
                                  table |-> ToCsv(outdir[i].table, f.table),
                                  writes |-> 2]
                            ELSE outdir[i]]
          ELSE /\ Len(outdir) < MaxDir
               /\ \E pos \in 1..(Len(outdir) + 1) :
                    outdir' = InsertAt(outdir, pos,
                                       [name |-> name, table |-> f.table,
                                        writes |-> 1])
       /\ astep' = 0
       /\ UNCHANGED <<dbVars, inVars, ctlVars, dashVars, raw, cleaned, category,
                      bucketed, pc, loopVars, uiVars, faults, histVars,
                      runVars>>

\* migrate_csv_to_sql.py over the directory; astep counts the migrations
\* since the last write of the harvester, up to two
CsvMigrate ==
  LET listing == [i \in DOMAIN outdir |-> FileRecord(outdir[i])]
      db == migrate_csvs(Db, listing)
  IN /\ annual' = db.annual
     /\ monthly' = db.monthly
     /\ astep' = IF astep < 2 THEN astep + 1 ELSE 2
     /\ UNCHANGED <<inserts, lastInsert, inVars, ctlVars, dashVars, raw, cleaned,
                    category, bucketed, outdir, pc, loopVars, uiVars, faults,
                    histVars, runVars>>

\* the tables the SQL harvester finds between two migrations
PriorInputs(x) ==
  IF x = "Calendar Year"
  THEN {MakeTable(NameCol, <<YearCol("2016")>>,
                  << <<"A", <<7>>>>, <<"C", <<5>>>> >>)}
  ELSE {MakeTable(NameCol, MonthCols, << <<"A", <<3, 0>>>>, <<"C", <<NaN, 3>>>> >>)}

\* the SQL harvester persists a table into the database file after a
\* migration
CsvPersist ==
  \E y \in Range(target_y_axis_options) : \E x \in target_x_axis_options :
  \E year \in StoreYears :
  \E df \in PriorInputs(x) :
    LET db == PersistTables(Db, <<df>>, y, x, ParseInt(year))
    IN /\ astep >= 1
       /\ annual' = db.annual
       /\ monthly' = db.monthly
       /\ astep' = 0
       /\ UNCHANGED <<inserts, lastInsert, inVars, ctlVars, dashVars, raw,
                      cleaned, category, bucketed, outdir, pc, loopVars, uiVars,
                      faults, histVars, runVars>>

CsvNext == CsvScrape \/ CsvMigrate \/ CsvPersist

CsvSpec == Init /\ [][CsvNext]_vars

(***************************************************************************)
(* Two batches written in sequence into the empty annual_registrations.    *)
(***************************************************************************)
AnnualRecords ==
  [Name : {"A", "B"}, DataType : {"Maker"}, Year : {2016, 2017},
   Registrations : {5, 7}]

MaxBatch == 2

Batches == SeqsUpTo(AnnualRecords, MaxBatch)

TwoWritesInit ==
  /\ annual = <<>> /\ monthly = <<>> /\ inserts = 0 /\ lastInsert = NoInsert
  /\ b1 \in Batches /\ b2 \in Batches /\ step = 0
  /\ parsed = <<>> /\ x_mode = "none" /\ best = 0 /\ made = NoSubmission
  /\ estep = 0
  /\ ControllerAtRest /\ DashboardAtRest /\ AuxAtRest
  /\ pc = "idle" /\ run = 0 /\ driver = "none"
  /\ yi = 0 /\ xi = 0 /\ ki = 0 /\ xopts = <<>> /\ years = <<>>
  /\ ticked = {} /\ panel = "none" /\ faults = 0
  /\ fetched_year_options = <<>> /\ refreshed = NoRefresh /\ lastScrape = NoScrape
  /\ reached = {} /\ refreshFailed = {} /\ skipped = {} /\ ended = "none"
  /\ curGot = {} /\ prevGot = {} /\ prevDb = <<<<>>, <<>>>> /\ prevEnded = "none"

WriteFirst ==
  /\ step = 0
  /\ annual' = insert_data_into_db(annual, b1, "annual_registrations")
  /\ step' = 1
  /\ UNCHANGED <<monthly, inserts, lastInsert, b1, b2, parsed, x_mode, best, made, estep,
                 pc, loopVars, uiVars, faults, histVars, runVars, ctlVars,
                 dashVars, auxVars>>

WriteSecond ==
  /\ step = 1
  /\ annual' = insert_data_into_db(annual, b2, "annual_registrations")
  /\ step' = 2
  /\ UNCHANGED <<monthly, inserts, lastInsert, b1, b2, parsed, x_mode, best, made, estep,
                 pc, loopVars, uiVars, faults, histVars, runVars, ctlVars,
                 dashVars, auxVars>>

TwoWritesNext == WriteFirst \/ WriteSecond

TwoWritesSpec == TwoWritesInit /\ [][TwoWritesNext]_vars

(***************************************************************************)
(* Table extraction and normalization of scrape_table_data_to_db applied   *)
(* to lists of parsed tables: the choice of best_df, then the frame handed *)
(* to insert_data_into_db for the combination (Maker, x_mode, 2016).       *)
(***************************************************************************)
MaxTables == 3

\* a table without a serial-number header: nrows x ncols of numbers
PlainTable(nrows, ncols) ==
  [cols |-> [k \in 1..ncols |-> <<"Report", "c">>],
   rows |-> [i \in 1..nrows |-> [k \in 1..ncols |-> i]]]

ThreeMonths == <<MonthCol("JAN"), MonthCol("FEB"), MonthCol("MAR")>>

CandidateTables ==
  { MakeTable(NameCol, <<YearCol("2016")>>,
              << <<"A", <<5>>>>, <<"B", <<7>>>>, <<"C", <<9>>>> >>),
    MakeTable(NameCol, <<YearCol("2016"), YearCol("2017")>>,
              << <<"A", <<5, 6>>>>, <<"B", <<7, 8>>>> >>),
    MakeTable(NameCol, ThreeMonths,
              << <<"A", <<10, 0, 5>>>>, <<"B", <<1, 2, 3>>>> >>),
    MakeTable(MakerCol, ThreeMonths,
              << <<"A", <<10, 0, 5>>>>, <<"B", <<1, 2, 3>>>> >>),
    MakeTable(NameCol, <<YearCol("2016")>>, << <<"A", <<5>>>> >>),
    PlainTable(3, 4),
    PlainTable(2, 7),
    PlainTable(6, 2),
    AuxTable }

TableLists == SeqsUpTo(CandidateTables, MaxTables)

ExtractInit ==
  /\ annual = <<>> /\ monthly = <<>> /\ inserts = 0 /\ lastInsert = NoInsert
  /\ b1 = <<>> /\ b2 = <<>> /\ step = 0
  /\ parsed \in TableLists /\ x_mode \in target_x_axis_options
  /\ best = 0 /\ made = NoSubmission /\ estep = 0
  /\ ControllerAtRest /\ DashboardAtRest /\ AuxAtRest
  /\ pc = "idle" /\ run = 0 /\ driver = "none"
  /\ yi = 0 /\ xi = 0 /\ ki = 0 /\ xopts = <<>> /\ years = <<>>
  /\ ticked = {} /\ panel = "none" /\ faults = 0
  /\ fetched_year_options = <<>> /\ refreshed = NoRefresh /\ lastScrape = NoScrape
  /\ reached = {} /\ refreshFailed = {} /\ skipped = {} /\ ended = "none"
  /\ curGot = {} /\ prevGot = {} /\ prevDb = <<<<>>, <<>>>> /\ prevEnded = "none"

\* the loop over the parsed tables
SelectBest ==
  /\ estep = 0
  /\ best' = BestIndex(parsed)
  /\ estep' = 1
  /\ UNCHANGED <<dbVars, b1, b2, step, parsed, x_mode, made, pc, loopVars,
                 uiVars, faults, histVars, runVars, ctlVars, dashVars, auxVars>>

\* the preparation of df_to_insert and the report
Normalize ==
  /\ estep = 1
  /\ made' = Submission(parsed, "Maker", x_mode, 2016)
  /\ estep' = 2
  /\ UNCHANGED <<dbVars, b1, b2, step, parsed, x_mode, best, pc, loopVars,
                 uiVars, faults, histVars, runVars, ctlVars, dashVars, auxVars>>

ExtractNext == SelectBest \/ Normalize

ExtractSpec == ExtractInit /\ [][ExtractNext]_vars

(***************************************************************************)
(* The cleaning loop of scrape_table_data_to_db on one object column.  The *)
(* text of a cell is the sequence of its characters.                       *)
(***************************************************************************)
MaxCells == 3

Digits == {"0", "1", "2", "3", "4", "5", "6", "7", "8", "9"}

\* the texts a cell of the page can hold: 1,234 with its thousands comma,
\* 56 between blanks, 7, the label N/A and the name A, B
CellTexts ==
  { <<"1", ",", "2", "3", "4">>, <<" ", "5", "6", " ">>, <<"7">>,
    <<"N", "/", "A">>, <<"A", ",", " ", "B">> }

DigitValue(d) ==
  CASE d = "0" -> 0 [] d = "1" -> 1 [] d = "2" -> 2 [] d = "3" -> 3
    [] d = "4" -> 4 [] d = "5" -> 5 [] d = "6" -> 6 [] d = "7" -> 7
    [] d = "8" -> 8 [] d = "9" -> 9

\* the text parses as a number: the decimal numerals of the model
IsNumeral(ts) == ts # <<>> /\ \A i \in DOMAIN ts : ts[i] \in Digits

NumeralValue(ts) ==
  LET F[i \in 0..Len(ts)] ==
        IF i = 0 THEN 0 ELSE 10 * F[i-1] + DigitValue(ts[i])
  IN F[Len(ts)]

\* .astype(str).str.replace(',', '', regex=False).str.strip() on one cell
CleanText(ts) == Strip(StrReplace(ts, ","))

\* What pd.to_numeric(..., errors='ignore') answers.  The installed pandas
\* decides between two: one that still knows errors='ignore' returns the
\* parsed column when every cell parses and the column as it was given when
\* one cell does not; one from which the option was removed rejects the
\* call with a ValueError whatever the column.
NumericBuilds == {"ignore", "ignore_removed"}

ToNumericIgnore(col, build) ==
  IF build = "ignore_removed" THEN [raised |-> "ValueError", values |-> <<>>]
  ELSE IF \A i \in DOMAIN col : IsNumeral(col[i])
  THEN [raised |-> "none",
        values |-> [i \in DOMAIN col |->
                      [kind |-> "number", v |-> NumeralValue(col[i])]]]
  ELSE [raised |-> "none",
        values |-> [i \in DOMAIN col |-> [kind |-> "text", v |-> Join(col[i])]]]

\* the body of the cleaning loop for one column of dtype object
CleanColumn(col, build) ==
  ToNumericIgnore([i \in DOMAIN col |-> CleanText(col[i])], build)

Columns == SeqsUpTo(CellTexts, MaxCells) \ {<<>>}

CleanInit ==
  /\ annual = <<>> /\ monthly = <<>> /\ inserts = 0 /\ lastInsert = NoInsert
  /\ b1 = <<>> /\ b2 = <<>> /\ step = 0
  /\ parsed = <<>> /\ x_mode = "none" /\ best = 0 /\ made = NoSubmission
  /\ estep = 0
  /\ ControllerAtRest /\ DashboardAtRest
  /\ raw \in Columns /\ cleaned = <<>> /\ astep = 0
  /\ category = "none" /\ bucketed = <<>> /\ outdir = <<>>
  /\ pc = "idle" /\ run = 0 /\ driver = "none"
  /\ yi = 0 /\ xi = 0 /\ ki = 0 /\ xopts = <<>> /\ years = <<>>
  /\ ticked = {} /\ panel = "none" /\ faults = 0
  /\ fetched_year_options = <<>> /\ refreshed = NoRefresh /\ lastScrape = NoScrape
  /\ reached = {} /\ refreshFailed = {} /\ skipped = {} /\ ended = "none"
  /\ curGot = {} /\ prevGot = {} /\ prevDb = <<<<>>, <<>>>> /\ prevEnded = "none"

\* the cleaning loop reaches the column
CleanStep ==
  /\ astep = 0
  /\ \E build \in NumericBuilds : cleaned' = CleanColumn(raw, build)
  /\ astep' = 1
  /\ UNCHANGED <<dbVars, inVars, ctlVars, dashVars, raw, category, bucketed,
                 outdir, pc, loopVars, uiVars, faults, histVars, runVars>>

CleanSpec == CleanInit /\ [][CleanStep]_vars

(***************************************************************************)
(* The three copies of map_vehicle_category.  A category name is the       *)
(* sequence of its pieces, a blank and the runs of letters the copies look *)
(* for; a keyword is in the name when its pieces are a stretch of it.      *)
(***************************************************************************)
MaxPieces == 5

NamePieces == {" ", "TWO", "THREE", "WHEELER", "LIGHT", "MOTOR", "VEHICLE",
               "BUS", "bus"}

\* .upper()
Upper(ts) == [i \in DOMAIN ts |-> IF ts[i] = "bus" THEN "BUS" ELSE ts[i]]

\* keyword in category_name
In(keyword, name) ==
  \E i \in 0..(Len(name) - Len(keyword)) :
    \A k \in DOMAIN keyword : name[i + k] = keyword[k]

TwoWheeler == <<"TWO", " ", "WHEELER">>
ThreeWheeler == <<"THREE", " ", "WHEELER">>

SqlAppKeywords ==
  { <<"FOUR", " ", "WHEELER">>, <<"LIGHT", " ", "MOTOR", " ", "VEHICLE">>,
    <<"MEDIUM", " ", "MOTOR", " ", "VEHICLE">>,
    <<"HEAVY", " ", "MOTOR", " ", "VEHICLE">>, <<"GOODS", " ", "VEHICLE">>,
    <<"PASSENGER", " ", "VEHICLE">>, <<"BUS">>, <<"TRAC">>,
    <<"EARTH", " ", "MOVING">>, <<"DUMPER">>, <<"CRANE">> }

CsvAppKeywords ==
  { <<"FOUR", " ", "WHEELER">>, <<"GOODS", " ", "VEHICLE">>,
    <<"PASSENGER", " ", "VEHICLE">>, <<"MOTOR", " ", "VEHICLE">>, <<"TRAC">>,
    <<"EARTH", " ", "MOVING">> }

MigrateKeywords ==
  { <<"FOUR", " ", "WHEELER">>, <<"GOODS", " ", "VEHICLE">>,
    <<"PASSENGER", " ", "VEHICLE">>, <<"MOTOR", " ", "VEHICLE">>, <<"TRAC">>,
    <<"EARTH", " ", "MOVING">> }

\* the body the three copies share: strip and upper, then the tests for
\* two-wheelers, three-wheelers and the keywords of the copy
Bucket(category_name, keywords) ==
  LET name == Upper(Strip(category_name))
  IN IF In(TwoWheeler, name) THEN "2W"
     ELSE IF In(ThreeWheeler, name) THEN "3W"
     ELSE IF \E keyword \in keywords : In(keyword, name) THEN "4W"
     ELSE "Other"

sql_app_map_vehicle_category(category_name) ==
  Bucket(category_name, SqlAppKeywords)

csv_app_map_vehicle_category(category_name) ==
  Bucket(category_name, CsvAppKeywords)

migrate_map_vehicle_category(category_name) ==
  Bucket(category_name, MigrateKeywords)

CategoryNames == SeqsUpTo(NamePieces, MaxPieces)

MapInit ==
  /\ annual = <<>> /\ monthly = <<>> /\ inserts = 0 /\ lastInsert = NoInsert
  /\ b1 = <<>> /\ b2 = <<>> /\ step = 0
  /\ parsed = <<>> /\ x_mode = "none" /\ best = 0 /\ made = NoSubmission
  /\ estep = 0
  /\ ControllerAtRest /\ DashboardAtRest
  /\ raw = <<>> /\ cleaned = <<>> /\ astep = 0
  /\ category \in CategoryNames /\ bucketed = <<>> /\ outdir = <<>>
  /\ pc = "idle" /\ run = 0 /\ driver = "none"
  /\ yi = 0 /\ xi = 0 /\ ki = 0 /\ xopts = <<>> /\ years = <<>>
  /\ ticked = {} /\ panel = "none" /\ faults = 0
  /\ fetched_year_options = <<>> /\ refreshed = NoRefresh /\ lastScrape = NoScrape
  /\ reached = {} /\ refreshFailed = {} /\ skipped = {} /\ ended = "none"
  /\ curGot = {} /\ prevGot = {} /\ prevDb = <<<<>>, <<>>>> /\ prevEnded = "none"

\* the name is mapped by each copy
MapStep ==
  /\ astep = 0
  /\ bucketed' = [sql_app |-> sql_app_map_vehicle_category(category),
                  csv_app |-> csv_app_map_vehicle_category(category),
                  migrate |-> migrate_map_vehicle_category(category)]
  /\ astep' = 1
  /\ UNCHANGED <<dbVars, inVars, ctlVars, dashVars, raw, cleaned, category,
                 outdir, pc, loopVars, uiVars, faults, histVars, runVars>>

MapSpec == MapInit /\ [][MapStep]_vars

(***************************************************************************)
(* The growth computation of the dashboards.  A frame is the set of its    *)
(* rows; a number of registrations is a natural number, NaN the missing    *)
(* value.  A float that a division produced is the record of its kind:     *)
(* "ratio" for the finite quotient num/den not yet rounded, "num" for v     *)
(* hundredths after round(2), "inf" with the sign v, "nan", and "NA" for    *)
(* pd.NA.                                                                   *)
(***************************************************************************)
\* month_to_num of load_data_from_db
MonthNum(m) ==
  CASE m = "JAN" -> 1 [] m = "FEB" -> 2 [] m = "MAR" -> 3 [] m = "APR" -> 4
    [] m = "MAY" -> 5 [] m = "JUN" -> 6 [] m = "JUL" -> 7 [] m = "AUG" -> 8
    [] m = "SEP" -> 9 [] m = "OCT" -> 10 [] m = "NOV" -> 11 [] m = "DEC" -> 12

\* df_monthly['Date'].dt.quarter
QuarterOf(m) == (MonthNum(m) - 1) \div 3 + 1

\* groupby(...)[value].sum() for one group
SumOf(rows, field) ==
  LET F[T \in SUBSET rows] ==
        IF T = {} THEN 0
        ELSE LET r == CHOOSE r \in T : TRUE IN r[field] + F[T \ {r}]
  IN F[rows]

\* ((cur - prev) / prev) * 100 on floats; prev is NaN where shift(1) found
\* no row
PctChange(cur, prev) ==
  IF prev = NaN THEN [kind |-> "nan", v |-> 0, num |-> 0, den |-> 1]
  ELSE IF prev = 0
  THEN (IF cur = 0 THEN [kind |-> "nan", v |-> 0, num |-> 0, den |-> 1]
        ELSE [kind |-> "inf", v |-> IF cur > 0 THEN 1 ELSE -1,
              num |-> 0, den |-> 1])
  ELSE [kind |-> "ratio", v |-> 0, num |-> (cur - prev) * 100, den |-> prev]

\* a replace that leaves the infinite values in the column
KeepInf(g) == g

\* .replace([float('inf'), -float('inf')], pd.NA) on one value
ReplaceInf(g) == IF g.kind = "inf" THEN [g EXCEPT !.kind = "NA", !.v = 0] ELSE g

\* round(2) of num/den in hundredths, ties to the even neighbour
RoundHundredths(num, den) ==
  LET q == (num * 100) \div den
      r == num * 100 - q * den
  IN IF 2 * r > den THEN q + 1
     ELSE IF 2 * r = den THEN q + (q % 2)
     ELSE q

\* .round(2) on one value of a float column
Round2(g) ==
  IF g.kind = "ratio"
  THEN [kind |-> "num", v |-> RoundHundredths(g.num, g.den), num |-> 0,
        den |-> 1]
  ELSE g

\* What .replace(..., pd.NA).round(2) makes of a growth column.  Where no
\* value was infinite the column stays float64 and is rounded.  Where one
\* was, the installed pandas decides: the column stays float64 with NaN, or
\* becomes an object column that round leaves as it is, or that round
\* rejects with a TypeError.
RoundBuilds == {"float64", "object", "TypeError"}

\* the growth column after replace and round, "TypeError" where round raised
ReplaceAndRound(column, build) ==
  LET replaced == {[row |-> c.row, g |-> ReplaceInf(c.g)] : c \in column}
      touched == \E c \in column : ReplaceInf(c.g) # c.g
  IN IF ~touched \/ build = "float64"
     THEN [raised |-> "none",
           column |-> {[row |-> c.row, g |-> Round2(c.g)] : c \in replaced}]
     ELSE IF build = "object" THEN [raised |-> "none", column |-> replaced]
     ELSE [raised |-> "TypeError", column |-> {}]

\* The shifted series of one entity: for each period that has a row, the
\* total of the period and the total of the row before it in the order of
\* the periods, NaN for the first.  dated is the set of the rows, each with
\* its period: [row, Period]; groupby(...).sum(), sort_values and
\* groupby(...).shift(1) do the rest.
Shifted(dated, name, field) ==
  LET mine == {x \in dated : x.row.Name = name}
      periods == {x.Period : x \in mine}
      total(p) == SumOf({x.row : x \in {y \in mine : y.Period = p}}, field)
      before(p) == {q \in periods : q < p}
      last(p) == CHOOSE q \in before(p) : \A q2 \in before(p) : q2 <= q
  IN {[Name |-> name, Period |-> p, Value |-> total(p),
       Prev |-> IF before(p) = {} THEN NaN ELSE total(last(p))] :
        p \in periods}

QuarterIndex(r) == r.Year * 4 + QuarterOf(r.Month) - 1

\* pd.DataFrame(): what both functions return for an empty frame
EmptyFrame == [raised |-> "none", column |-> {}]

GrowthOf(series, build) ==
  ReplaceAndRound({[row |-> x, g |-> PctChange(x.Value, x.Prev)] : x \in series}, build)

\* calculate_yoy_growth(df_annual): rows [Name, Year, Registrations]
calculate_yoy_growth(df_annual, build) ==
  IF df_annual = {} THEN EmptyFrame
  ELSE LET dated == {[row |-> r, Period |-> r.Year] : r \in df_annual}
       IN GrowthOf(UNION {Shifted(dated, n, "Registrations") :
                            n \in {r.Name : r \in df_annual}}, build)

\* calculate_qoq_growth(df_monthly): rows [Name, Year, Month,
\* MonthlyRegistrations]; Period is 4 * Year + Quarter - 1
calculate_qoq_growth(df_monthly, build) ==
  IF df_monthly = {} THEN EmptyFrame
  ELSE LET dated == {[row |-> r, Period |-> QuarterIndex(r)] :
                        r \in df_monthly}
       IN GrowthOf(UNION {Shifted(dated, n, "MonthlyRegistrations") :
                            n \in {r.Name : r \in df_monthly}}, build)

(***************************************************************************)
(* The dashboard over frames of a small set: the annual rows of two        *)
(* entities over three years, the monthly rows of one entity over two      *)
(* years.                                                                  *)
(***************************************************************************)
GrowthNames == {"A", "B"}
GrowthYears == {2016, 2017, 2018}
GrowthValues == {0, 5, 10}
QuarterYears == {2016, 2017}
QuarterMonths == {"JAN", "FEB", "APR", "JUL"}
QuarterValues == {0, 5}

\* the frames have at most one row for a key; NaN stands for no row
Present(f) == {k \in DOMAIN f : f[k] # NaN}

AnnualRow(k, v) == [Name |-> k[1], Year |-> k[2], Registrations |-> v]
MonthlyRow(k, v) ==
  [Name |-> "A", Year |-> k[1], Month |-> k[2], MonthlyRegistrations |-> v]

AnnualFrames ==
  { {AnnualRow(k, f[k]) : k \in Present(f)} :
      f \in [GrowthNames \X GrowthYears -> GrowthValues \cup {NaN}] }

MonthlyFrames ==
  { {MonthlyRow(k, f[k]) : k \in Present(f)} :
      f \in [QuarterYears \X QuarterMonths -> QuarterValues \cup {NaN}] }

DashInit ==
  /\ annual = <<>> /\ monthly = <<>> /\ inserts = 0 /\ lastInsert = NoInsert
  /\ b1 = <<>> /\ b2 = <<>> /\ step = 0
  /\ parsed = <<>> /\ x_mode = "none" /\ best = 0 /\ made = NoSubmission
  /\ estep = 0
  /\ ControllerAtRest /\ AuxAtRest
  /\ \/ loaded \in {[kind |-> "annual", rows |-> f] : f \in AnnualFrames}
     \/ loaded \in {[kind |-> "monthly", rows |-> f] : f \in MonthlyFrames}
  /\ shown = <<>> /\ dstep = 0
  /\ pc = "idle" /\ run = 0 /\ driver = "none"
  /\ yi = 0 /\ xi = 0 /\ ki = 0 /\ xopts = <<>> /\ years = <<>>
  /\ ticked = {} /\ panel = "none" /\ faults = 0
  /\ fetched_year_options = <<>> /\ refreshed = NoRefresh /\ lastScrape = NoScrape
  /\ reached = {} /\ refreshFailed = {} /\ skipped = {} /\ ended = "none"
  /\ curGot = {} /\ prevGot = {} /\ prevDb = <<<<>>, <<>>>> /\ prevEnded = "none"

\* growth_type_filter == "YoY Growth"
ShowYoY ==
  /\ dstep = 0 /\ loaded.kind = "annual"
  /\ \E build \in RoundBuilds :
       shown' = calculate_yoy_growth(loaded.rows, build)
  /\ dstep' = 1
  /\ UNCHANGED <<dbVars, inVars, ctlVars, auxVars, loaded, pc, loopVars, uiVars,
                 faults, histVars, runVars>>

\* growth_type_filter == "QoQ Growth"
ShowQoQ ==
  /\ dstep = 0 /\ loaded.kind = "monthly"
  /\ \E build \in RoundBuilds :
       shown' = calculate_qoq_growth(loaded.rows, build)
  /\ dstep' = 1
  /\ UNCHANGED <<dbVars, inVars, ctlVars, auxVars, loaded, pc, loopVars, uiVars,
                 faults, histVars, runVars>>

DashNext == ShowYoY \/ ShowQoQ

DashSpec == DashInit /\ [][DashNext]_vars

(***************************************************************************)
(* The dropdown controller against the year dropdowns of the page: calls   *)
(* of select_dropdown_option, of get_dropdown_options and of the unselect  *)
(* step, one after the other, under every pattern of waits.                *)
(***************************************************************************)
MaxCalls == 2

ControlIds == {"selectedYear", "yearList"}
ControlOptions == {"2016", "2017"}

Widget == [panel |-> panel, ticked |-> ticked, selected |-> selected]

\* the call r was made: the page and the record of the call
Called(r) ==
  /\ calls < MaxCalls
  /\ calls' = calls + 1
  /\ panel' = r.panel /\ ticked' = r.ticked /\ selected' = r.selected
  /\ lastCall' = [op |-> r.op, id |-> r.id, option_text |-> r.option_text,
                  events |-> r.events, ret |-> r.ret, was |-> selected]
  /\ UNCHANGED <<dbVars, inVars, dashVars, auxVars, pc, loopVars, faults, histVars,
                 runVars>>

SelectOption ==
  \E id \in ControlIds : \E opt \in ControlOptions : \E w \in WaitPatterns :
    Called(ControllerCall(Widget, "select", id, opt, w))

ListOptions ==
  \E id \in ControlIds : \E w \in WaitPatterns :
    Called(ControllerCall(Widget, "list", id, "none", w))

UnselectOption ==
  \E opt \in ControlOptions : \E w \in WaitPatterns :
    Called(ControllerCall(Widget, "unselect", "yearList", opt, w))

ControlNext == SelectOption \/ ListOptions \/ UnselectOption

ControlSpec == Init /\ [][ControlNext]_vars

(***************************************************************************)
(* Properties of the store, checked under TwoWritesSpec and StoreSpec.     *)
(***************************************************************************)
KeysDistinct(batch) ==
  \A i, j \in DOMAIN batch : i # j => AnnualKey(batch[i]) # AnnualKey(batch[j])

\* replace-by-key: the rows of B2, and the rows of B1 whose key B2 lacks
UpsertResult(B1, B2) ==
  Range(B2) \cup {r \in Range(B1) : \A q \in Range(B2) : AnnualKey(q) # AnnualKey(r)}

\* C1: after batch b1 and then batch b2 (keys distinct within each) were
\* written by insert_data_into_db into the empty annual_registrations, the
\* table holds b2's row for every key of b2, b1's row for every key only b1
\* has, and nothing else.
C1_ReplaceByKey ==
  (step = 2 /\ KeysDistinct(b1) /\ KeysDistinct(b2))
    => /\ Range(annual) = UpsertResult(b1, b2)
       /\ Len(annual) = Cardinality(UpsertResult(b1, b2))

\* C2: whatever initialize_db, insert_data_into_db and migrate_csvs did, no
\* two rows of annual_registrations share (Name, DataType, Year) and no two
\* rows of monthly_registrations share (Name, DataType, Year, Month).
C2_UniqueKeys ==
  /\ \A i, j \in DOMAIN annual :
        i # j => AnnualKey(annual[i]) # AnnualKey(annual[j])
  /\ \A i, j \in DOMAIN monthly :
        i # j => MonthlyKey(monthly[i]) # MonthlyKey(monthly[j])

\* both tables hold rows, the annual one from more than one batch and from
\* both writers (the migration labels makers "Manufacturer")
C2_SeveralWriters ==
  /\ Len(annual) >= 3
  /\ monthly # <<>>
  /\ \E i \in DOMAIN annual : annual[i].DataType = "Manufacturer"
  /\ \E i \in DOMAIN annual : annual[i].DataType = "Maker"

\* C10: no row of annual_registrations has Registrations = 0 and no row of
\* monthly_registrations has MonthlyRegistrations = 0.
C10_NoZeroRows ==
  /\ \A i \in DOMAIN annual : annual[i].Registrations # 0
  /\ \A i \in DOMAIN monthly : monthly[i].MonthlyRegistrations # 0

(***************************************************************************)
(* Properties of the harvester runs, checked under Spec.                   *)
(***************************************************************************)
\* how main returns (the process was not killed)
RunEnds == {"loop_end", "load_failed", "no_y_options", "setup_failed"}

IsPrefix(s, t) == Len(s) <= Len(t) /\ \A i \in DOMAIN s : t[i] = s[i]

\* the years and combinations main enumerates on the modelled dashboard
RelevantYears == SelectSeq(YearsListed, LAMBDA opt : opt \in target_years)

AllCombos ==
  {<<y, x, yr>> : y \in Range(target_y_axis_options),
                  x \in Range(XAxisListed) \cap target_x_axis_options,
                  yr \in Range(RelevantYears)}

\* C3: when main has run twice, each time to its return, and the page
\* rendered the same table for every combination in both runs, the two
\* tables hold after the second run exactly what they held after the first.
C3_SecondRunChangesNothing ==
  (/\ pc = "idle" /\ run >= 2
   /\ ended \in RunEnds /\ prevEnded \in RunEnds
   /\ curGot = prevGot)
    => <<annual, monthly>> = prevDb

\* two full sweeps that saw the same tables and filled both tables
C3_TwoFullRuns ==
  /\ pc = "idle" /\ run = 2
  /\ ended = "loop_end" /\ prevEnded = "loop_end"
  /\ curGot = prevGot /\ curGot # {}
  /\ inserts >= 2 * Cardinality(curGot)
  /\ annual # <<>> /\ monthly # <<>>

\* C4: in a run started after an interrupted run, the rows both tables held
\* at the restart are still there, unchanged, in every state of the run.
C4_RestartKeepsRows ==
  (run >= 2 /\ prevEnded = "interrupted")
    => IsPrefix(prevDb[1], annual) /\ IsPrefix(prevDb[2], monthly)

\* the restarted run found rows and has added rows of its own
C4_RestartedAndGrown ==
  /\ run >= 2 /\ prevEnded = "interrupted"
  /\ prevDb[1] # <<>>
  /\ Len(annual) > Len(prevDb[1])

YearIndex(yr) == CHOOSE k \in DOMAIN RelevantYears : RelevantYears[k] = yr

\* the year after that of combination c has been attempted, or the loop
\* stands before it, or c was the last year, or the process was killed
NextYearAttempted(c) ==
  LET k == YearIndex(c[3])
  IN \/ k = Len(RelevantYears)
     \/ <<c[1], c[2], RelevantYears[k + 1]>> \in reached
     \/ pc = "idle" /\ ended = "interrupted"
     \/ /\ pc \in {"cy_select", "mw_select", "cy_unselect"}
        /\ CurY = c[1] /\ CurX = c[2]
        /\ IF pc = "cy_unselect" THEN ki = k ELSE ki = k + 1

\* C5: for a combination whose refresh-button wait or post-refresh overlay
\* wait timed out, in either year loop, the scrape never ran (no table was
\* extracted, so nothing was written for it) and the loop goes on to the
\* next year.
C5_RefreshFailureSkipsOneYear ==
  \A c \in refreshFailed :
     /\ \A g \in curGot : <<g[1], g[2], g[3]>> # c
     /\ NextYearAttempted(c)

\* a refresh failed for the first year and the second year was attempted
C5_FailedThenNextYear ==
  \E c \in refreshFailed :
     /\ c[3] = RelevantYears[1]
     /\ <<c[1], c[2], RelevantYears[2]>> \in reached

\* the combination was attempted: its loop body began, or the selection of
\* its axis option or the listing under it was tried and failed
Attempted(c) ==
  \/ c \in reached
  \/ <<c[1]>> \in skipped
  \/ <<c[1], c[2]>> \in skipped

ExtractionFailed(ls, x) ==
  \/ ls.wait # "rendered"
  \/ ls.tables = <<>>
  \/ BestIndex(ls.tables) = 0
  \/ LET df == ls.tables[BestIndex(ls.tables)]
     IN IF x = "Calendar Year" THEN FirstYearCol(df) = 0
        ELSE NameIndex(df) = 0 \/ ColumnsWhere(df.cols, "month") = <<>>

\* C7: a scrape whose waits failed, whose container held no table, none of
\* whose tables qualified or whose table lacks the year or month columns
\* does not call insert_data_into_db and leaves both tables unchanged.
C7_FailedExtractionWritesNothing ==
  [][ (pc \in {"cy_scrape", "mw_scrape"} /\ ExtractionFailed(lastScrape', CurX))
        => UNCHANGED <<annual, monthly, inserts>> ]_vars

\* a wait of the scrape timed out while the page held a data table and the
\* store already held rows
C7_WaitFailedOverData ==
  /\ lastScrape.wait \notin {"none", "rendered"}
  /\ BestIndex(lastScrape.tables) # 0
  /\ monthly # <<>>

\* C8: whenever the refresh button is clicked in Calendar Year mode, the
\* years ticked in the multi-select list are exactly the year in process.
C8_OneYearTicked ==
  refreshed.x = "Calendar Year" => refreshed.ticked = {refreshed.year}

\* C9: when a year loop moves on from a combination, to the next year or
\* out of the loop, no dropdown panel is open.
C9_NoPanelOpenWhenMovingOn ==
  (pc \in {"cy_select", "mw_select"} /\ ki > 1) => panel = "none"

(***************************************************************************)
(* Properties of the extractor and the normalizer, checked under           *)
(* ExtractSpec.                                                            *)
(***************************************************************************)
\* rule (a): a serial-number header and more than one row
HasSerialRows(df) == s_no_found(df) /\ Len(df.rows) > 1

\* rule (b): more than one row and more than two columns
Qualifies(df) == Len(df.rows) > 1 /\ Len(df.cols) > 2

\* rowCount x columnCount
Area(df) == Len(df.rows) * Len(df.cols)

\* C11: when some parsed table has a serial-number header and more than one
\* row, the first such table in document order is selected, whatever the
\* sizes and positions of the other tables.
C11_FirstSerialTableWins ==
  (estep >= 1 /\ \E i \in DOMAIN parsed : HasSerialRows(parsed[i]))
    => /\ best \in DOMAIN parsed
       /\ HasSerialRows(parsed[best])
       /\ \A i \in 1..(best - 1) : ~HasSerialRows(parsed[i])

\* the serial-number table was selected between two larger tables
C11_SerialBetweenLarger ==
  /\ estep >= 1 /\ Len(parsed) = 3 /\ best = 2
  /\ HasSerialRows(parsed[2])
  /\ Qualifies(parsed[1]) /\ Area(parsed[1]) > Area(parsed[2])
  /\ Qualifies(parsed[3]) /\ Area(parsed[3]) > Area(parsed[2])

\* C12: when no parsed table has a serial-number header, the table selected
\* has more than one row and more than two columns and no such table has a
\* larger rows x columns; no table is selected when there is no such table.
C12_LargestQualifyingTable ==
  (estep >= 1 /\ \A i \in DOMAIN parsed : ~s_no_found(parsed[i]))
    => IF \E i \in DOMAIN parsed : Qualifies(parsed[i])
       THEN /\ best \in DOMAIN parsed
            /\ Qualifies(parsed[best])
            /\ \A i \in DOMAIN parsed :
                  Qualifies(parsed[i]) => Area(parsed[i]) <= Area(parsed[best])
       ELSE best = 0

\* the larger of two qualifying tables came second, after a table with more
\* rows, and a table with too few columns was passed over
C12_LargerCameLater ==
  /\ estep >= 1 /\ Len(parsed) = 3 /\ best = 3
  /\ \A i \in DOMAIN parsed : ~s_no_found(parsed[i])
  /\ ~Qualifies(parsed[1]) /\ Area(parsed[1]) > 0
  /\ Qualifies(parsed[2]) /\ Len(parsed[2].rows) > Len(parsed[3].rows)

\* the columns are S No, Name, value columns of the given kind, TOTAL
HasShape(df, kind) ==
  /\ Len(df.cols) >= 4
  /\ df.cols[1] = SNoCol /\ df.cols[2] = NameCol
  /\ df.cols[Len(df.cols)] = TotalCol
  /\ \A k \in 3..(Len(df.cols) - 1) : Matches(kind, df.cols[k])

ValueColumns(df) == 3..(Len(df.cols) - 1)

\* C13: for a selected table S No, Name, k columns 'Calendar Year_YYYY',
\* TOTAL with n rows, the Calendar Year normalization submits n x k annual
\* records, one per (row, year column), with the Year of the column's label
\* and the Registrations of the cell.
C13_OneRecordPerYearColumn ==
  (/\ estep = 2 /\ x_mode = "Calendar Year" /\ best # 0
   /\ HasShape(parsed[best], "year"))
    => LET df == parsed[best]
       IN /\ made.called /\ made.table_name = "annual_registrations"
          /\ Len(made.batch) = Len(df.rows) * Cardinality(ValueColumns(df))
          /\ \A i \in DOMAIN df.rows : \A k \in ValueColumns(df) :
                \E j \in DOMAIN made.batch :
                   /\ made.batch[j].Name = df.rows[i][2]
                   /\ made.batch[j].Year = ParseInt(df.cols[k][2])
                   /\ made.batch[j].Registrations = df.rows[i][k]

\* C14: for a selected table S No, Name, 'Month Wise_<MON>' columns, TOTAL,
\* processed for year 2016, the Month Wise normalization submits one
\* monthly record per (row, month column) whose value is positive, with
\* Year 2016 and the Month of the label, and none for a value of 0.
C14_PositiveMonthsOnly ==
  (/\ estep = 2 /\ x_mode = "Month Wise" /\ best # 0
   /\ HasShape(parsed[best], "month"))
    => LET df == parsed[best]
           positive == {<<i, k>> \in (DOMAIN df.rows) \X ValueColumns(df) :
                          df.rows[i][k] > 0}
       IN /\ made.called /\ made.table_name = "monthly_registrations"
          /\ Len(made.batch) = Cardinality(positive)
          /\ \A j \in DOMAIN made.batch :
                made.batch[j].MonthlyRegistrations > 0 /\ made.batch[j].Year = 2016
          /\ \A p \in positive :
                \E j \in DOMAIN made.batch :
                   /\ made.batch[j].Name = df.rows[p[1]][2]
                   /\ made.batch[j].Month = df.cols[p[2]][2]
                   /\ made.batch[j].MonthlyRegistrations = df.rows[p[1]][p[2]]

\* the selected table lacks the columns its mode is reshaped by
CannotReshape(df, x) ==
  IF x = "Calendar Year" THEN \A k \in DOMAIN df.cols : ~IsYearCol(df.cols[k])
  ELSE \/ \A k \in DOMAIN df.cols : df.cols[k] # NameCol
       \/ \A k \in DOMAIN df.cols : ~IsMonthCol(df.cols[k])

\* what a successful save reports: the completion message and the table
ReportsSave(m) == m.saved_msg /\ m.ret = "data_df"

\* C16: when the selected table cannot be reshaped, nothing is handed to
\* the store and the report of the combination is not that of a save.
C16_ReshapeFailureIsReported ==
  (estep = 2 /\ best # 0 /\ CannotReshape(parsed[best], x_mode))
    => ~made.called /\ ~ReportsSave(made)

(***************************************************************************)
(* Properties of the error handling of the harvester, checked under Spec.  *)
(***************************************************************************)
\* the positions of main at which it calls the dropdown controller
CallerPcs ==
  {"list_y", "sel_y", "list_x", "sel_x", "list_years", "mw_select", "cy_select"}

\* a step in which a wait inside select_dropdown_option or
\* get_dropdown_options timed out
TimedOutCall ==
  /\ pc \in CallerPcs
  /\ faults' = faults + 1
  /\ ended' # "interrupted"

InsertCalled == pc \in {"mw_scrape", "cy_scrape"} /\ inserts' = inserts + 1

\* C17: every call of insert_data_into_db returns with the connection
\* closed; when to_sql raised, for a uniqueness violation or any other
\* error, the exception did not leave the function and the year loop goes on
\* from where a successful call would have left it.
C17_InsertErrorsAreCaught ==
  [][ InsertCalled =>
        /\ lastInsert'.conn = "closed"
        /\ lastInsert'.raised # "none" =>
              /\ ~lastInsert'.propagated
              /\ pc' = IF pc = "mw_scrape" THEN "mw_select" ELSE "cy_unselect" ]_vars

\* a batch was rejected for its keys and the year loop stands at its next step
C17_RejectedAndGoingOn ==
  /\ lastInsert.raised = "IntegrityError"
  /\ lastInsert.conn = "closed"
  /\ pc \in {"mw_select", "cy_unselect"}
  /\ annual # <<>>

(***************************************************************************)
(* Properties of the stored names and entity types, checked under          *)
(* StoreSpec.                                                              *)
(***************************************************************************)
\* the names in the second column of the tables of T that start with S No
ScrapedNames(T) ==
  UNION { {df.rows[i][2] : i \in DOMAIN df.rows} :
            df \in {t \in T : t.cols[1] = SNoCol} }

\* a scraped name after the cell cleaning of the harvester
Unmapped(n) ==
  IF n = NullName THEN "nan" ELSE Join(Strip(StrReplace(NameTokens(n), ",")))

StoredNames ==
  {annual[i].Name : i \in DOMAIN annual} \cup
  {monthly[i].Name : i \in DOMAIN monthly}

\* the values map_vehicle_category returns
Buckets == {"2W", "3W", "4W", "Other"}

DashboardDataTypes == {"Manufacturer", "Vehicle Category"}

\* C19: every stored row has an entity type that is Manufacturer or
\* Vehicle Category.
C19_EntityTypesOfTheDashboard ==
  /\ \A i \in DOMAIN annual : annual[i].DataType \in DashboardDataTypes
  /\ \A i \in DOMAIN monthly : monthly[i].DataType \in DashboardDataTypes

(***************************************************************************)
(* Termination of a harvest run, checked under LiveSpec.                   *)
(***************************************************************************)
\* C20: every harvest run terminates: a main that has started reaches its
\* end, whatever the option lists and whichever waits time out.
C20_EveryRunTerminates == (pc # "idle") ~> (pc = "idle")

\* a run that met a timeout went through all its loops to the end of main
C20_EndedAfterATimeout ==
  /\ pc = "idle"
  /\ run > 0
  /\ ended = "loop_end"
  /\ faults > 0
  /\ reached # {}


(***************************************************************************)
(* The growth columns of the dashboards.                                   *)
(***************************************************************************)
\* the position in time of a loaded row: its year, or its quarter
PeriodOfLoaded(r) == IF loaded.kind = "annual" THEN r.Year ELSE QuarterIndex(r)

ValueField == IF loaded.kind = "annual" THEN "Registrations"
              ELSE "MonthlyRegistrations"

\* the loaded rows of an entity in one period
RowsIn(name, p) ==
  {r \in loaded.rows : r.Name = name /\ PeriodOfLoaded(r) = p}

\* C21: the baseline of every period of an entity is the total of the
\* entity's immediately preceding calendar period (the year before, the
\* quarter before); where that period has no data there is no baseline, never
\* the value of an earlier period.
C21_BaselineIsThePrecedingPeriod ==
  dstep = 1 =>
    \A c \in shown.column :
      c.row.Prev # NaN =>
        /\ RowsIn(c.row.Name, c.row.Period - 1) # {}
        /\ c.row.Prev = SumOf(RowsIn(c.row.Name, c.row.Period - 1), ValueField)

\* a growth value that is no number: NaN or pd.NA
Undefined(g) == g.kind \in {"nan", "NA"}

FirstPeriod(c) ==
  \A r \in loaded.rows :
    r.Name = c.row.Name => PeriodOfLoaded(r) >= c.row.Period

\* C22: the growth of the first period of an entity, and of every period
\* whose baseline is zero (the current value being zero or not), is
\* undefined; it is neither an infinity nor a finite number.
C22_NoGrowthWithoutBaseline ==
  dstep = 1 =>
    \A c \in shown.column :
      (FirstPeriod(c) \/ c.row.Prev = 0) => Undefined(c.g)

\* a shown frame with a first period, a zero baseline under a positive value
\* and a zero baseline under a zero value, beside a finite growth
C22_ZeroBaselinesShown ==
  /\ dstep = 1
  /\ \E c \in shown.column : FirstPeriod(c) /\ Undefined(c.g)
  /\ \E c \in shown.column :
       c.row.Prev = 0 /\ c.row.Value > 0 /\ Undefined(c.g)
  /\ \E c \in shown.column :
       c.row.Prev = 0 /\ c.row.Value = 0 /\ Undefined(c.g)
  /\ \E c \in shown.column : c.g.kind \in {"num", "ratio"}


(***************************************************************************)
(* Properties of the dropdown controller, checked under ControlSpec.       *)
(***************************************************************************)
Events == lastCall.events

IsClick(e, does) == e.kind = "click" /\ e.does = does
IsWait(e, on) == e.kind = "wait" /\ e.on = on

\* the click that opened the panel in which event i happens
OpenedAt(i) ==
  LET opens == {j \in 1..(i - 1) : IsClick(Events[j], "open")}
  IN IF opens = {} THEN 0 ELSE CHOOSE j \in opens : \A k \in opens : k <= j

\* C23: in every call of the controller, a click on an option comes after a
\* wait, since the click that opened the panel, that saw the panel visible;
\* and every click that closes the panel is followed at once by a wait for
\* the panel to become invisible.
C23_EveryCycleWaitsForThePanel ==
  /\ \A i \in DOMAIN Events :
       IsClick(Events[i], "pick") =>
         \E j \in (OpenedAt(i) + 1)..(i - 1) :
           IsWait(Events[j], "visible") /\ Events[j].ok
  /\ \A i \in DOMAIN Events :
       IsClick(Events[i], "close") =>
         i < Len(Events) /\ IsWait(Events[i + 1], "invisible")


\* a wait of the call timed out and left the function
Raised ==
  \E i \in DOMAIN Events :
    Events[i].kind = "wait" /\ ~Events[i].ok /\ ~Events[i].caught

Succeeded ==
  \/ lastCall.op = "select" /\ lastCall.ret = "True"
  \/ lastCall.op = "list" /\ lastCall.ret = "option_texts"

\* C28: when, in select_dropdown_option or get_dropdown_options, the wait
\* for the panel to become invisible times out, the next thing the call
\* does is a click on the page body, and the call returns as a success.
C28_BodyClickAfterCloseTimeout ==
  lastCall.op \in {"select", "list"} =>
    \A i \in DOMAIN Events :
      (IsWait(Events[i], "invisible") /\ ~Events[i].ok) =>
        /\ i < Len(Events)
        /\ IsClick(Events[i + 1], "close") /\ Events[i + 1].on = "body"
        /\ Succeeded

\* a selection whose panel did not go away in time
C28_ClosedByBodyClick ==
  /\ lastCall.op = "select" /\ lastCall.ret = "True"
  /\ Len(Events) > 1
  /\ IsWait(Events[Len(Events) - 1], "invisible")
  /\ ~Events[Len(Events) - 1].ok
  /\ Events[Len(Events)].on = "body"

Closers ==
  {i \in DOMAIN Events :
     \/ IsClick(Events[i], "apply")
     \/ IsClick(Events[i], "close") /\ Events[i].on = "trigger"}

FilterWaited(ok) ==
  \E i \in DOMAIN Events : IsWait(Events[i], "filter") /\ Events[i].ok = ok

\* C30: a call of select_dropdown_option on the multi-select list that
\* clicked its option does exactly one of two things next: it clicks Filter,
\* when the wait for Filter returned in time, or else the trigger.
C30_FilterOrTrigger ==
  (/\ lastCall.op = "select" /\ lastCall.id = "yearList"
   /\ \E i \in DOMAIN Events : IsClick(Events[i], "pick"))
    => /\ Cardinality(Closers) = 1
       /\ \A i \in Closers :
            IF FilterWaited(TRUE) THEN Events[i].on = "filter"
            ELSE Events[i].on = "trigger"

\* a multi-selection closed by the trigger, Filter not having shown up
C30_ClosedByTheTrigger ==
  /\ lastCall.op = "select" /\ lastCall.id = "yearList"
  /\ FilterWaited(FALSE)
  /\ \E i \in Closers : Events[i].on = "trigger"
  /\ lastCall.ret = "True"


(***************************************************************************)
(* The batch as the unit of a write, checked under TwoWritesSpec.          *)
(***************************************************************************)
\* the batch being written by the step from this state
BatchInHand == IF step = 0 THEN b1 ELSE b2

\* a row of the batch has the key of a stored row or of another row of the
\* batch
KeyConflict(rows, batch) ==
  \/ \E i \in DOMAIN batch : \E j \in DOMAIN rows :
       AnnualKey(batch[i]) = AnnualKey(rows[j])
  \/ ~KeysDistinct(batch)

C25_RowsCarryTheYearOfTheCombination ==
  [][pc = "cy_scrape" =>
       \A i \in DOMAIN annual' :
         i > Len(annual) => annual'[i].Year = ParseInt(CurYear)]_vars


(***************************************************************************)
(* The order of the combinations of a run, checked under Spec.             *)
(***************************************************************************)
Pos(seq, v) == CHOOSE i \in DOMAIN seq : seq[i] = v

\* the place of a combination in the three nested loops of main: the
\* category axis in the order of target_y_axis_options, the time axis and
\* the year in the order the page lists them
Rank(c) ==
  <<Pos(target_y_axis_options, c[1]), Pos(XAxisListed, c[2]),
    Pos(YearsListed, c[3])>>

Earlier(a, b) ==
  LET ra == Rank(a)
      rb == Rank(b)
  IN \/ ra[1] < rb[1]
     \/ ra[1] = rb[1] /\ ra[2] < rb[2]
     \/ ra[1] = rb[1] /\ ra[2] = rb[2] /\ ra[3] < rb[3]

\* the step is the year selection that begins a combination
AttemptStep == pc \in {"mw_select", "cy_select"} /\ ki <= Len(years) /\ pc' # "idle"

\* C26: every combination a run attempts comes, in the order category axis,
\* time axis, year, after every combination the run attempted before: the
\* order is that of the nested loops and no combination is attempted twice,
\* a failed one included.
C26_CombinationsInLoopOrderOnce ==
  [][AttemptStep => \A c \in reached : Earlier(c, <<CurY, CurX, CurYear>>)]_vars

\* a combination whose refresh failed, and a later one attempted after it
C26_WentOnAfterAFailure ==
  \E f \in refreshFailed : \E c \in reached : Earlier(f, c)


(***************************************************************************)
(* The extractor without a usable table, checked under ExtractSpec.        *)
(***************************************************************************)
\* more than one row together with a serial-number header or more than two
\* columns
Usable(df) == Len(df.rows) > 1 /\ (s_no_found(df) \/ Len(df.cols) > 2)

\* C27: no table is selected exactly when no parsed table has more than one
\* row together with a serial-number header or more than two columns; a
\* table that is selected has more than one row, a serial-number header or
\* not; and when no table is selected, insert_data_into_db is not called and
\* the empty frame is returned.
C27_NoUsableTable ==
  /\ estep >= 1 =>
       /\ best = 0 <=> \A i \in DOMAIN parsed : ~Usable(parsed[i])
       /\ best # 0 => Len(parsed[best].rows) > 1
  /\ (estep = 2 /\ \A i \in DOMAIN parsed : ~Usable(parsed[i]))
       => ~made.called /\ made.ret = "empty"

\* a serial-number table of one row and a table of two columns, neither
\* selected, nothing handed to the store
C27_SingleRowSerialTablePassedOver ==
  /\ estep = 2 /\ best = 0 /\ ~made.called /\ made.ret = "empty"
  /\ \E i \in DOMAIN parsed : s_no_found(parsed[i]) /\ Len(parsed[i].rows) = 1
  /\ \E i \in DOMAIN parsed : Len(parsed[i].rows) > 1 /\ Len(parsed[i].cols) = 2


(***************************************************************************)
(* Value cleaning, checked under CleanSpec.                                *)
(***************************************************************************)
\* the text of the cell is a number once its commas are removed
RepresentsNumber(ts) == IsNumeral(Strip(StrReplace(ts, ",")))

\* C31: the cleaning of a column does not raise, and afterwards each cell
\* that is a number once its commas are removed is numeric and each other
\* cell is text, whatever the other cells of the column are.
C31_CellsCleanedOneByOne ==
  astep = 1 =>
    /\ cleaned.raised = "none"
    /\ \A i \in DOMAIN raw :
         cleaned.values[i].kind =
           (IF RepresentsNumber(raw[i]) THEN "number" ELSE "text")


(***************************************************************************)
(* The migration of the CSV directory, checked under CsvSpec.              *)
(***************************************************************************)
\* the file of a directory that holds one file
OnlyFile == FileRecord(outdir[1])

\* the 'Calendar Year_YYYY', resp. 'Month Wise_*' columns of the file
FileValueColumns(f) == {j \in DOMAIN f.table.cols : f.table.cols[j][1] = f.x}

\* the cells of the value columns in rows with a name, holding more than 0
PositiveCells(f) ==
  LET n == NameIndex(RenameName(f.table, DfType(f)))
  IN {c \in (DOMAIN f.table.rows) \X FileValueColumns(f) :
        /\ n # 0
        /\ f.table.rows[c[1]][n] # NullName
        /\ f.table.rows[c[1]][c[2]] # NaN
        /\ f.table.rows[c[1]][c[2]] > 0}

\* the stored row r is the row of cell c of the file
RowOfCell(r, f, c) ==
  LET n == NameIndex(RenameName(f.table, DfType(f)))
      v == f.table.rows[c[1]][c[2]]
  IN /\ r.Name = f.table.rows[c[1]][n]
     /\ r.DataType = DfType(f)
     /\ IF f.x = "Calendar Year"
        THEN r.Year = ParseInt(f.table.cols[c[2]][2]) /\ r.Registrations = v
        ELSE /\ r.Year = ParseInt(f.year)
             /\ r.Month = f.table.cols[c[2]][2]
             /\ r.MonthlyRegistrations = v

OneRowPerCell(f) ==
  LET T == IF f.x = "Calendar Year" THEN annual ELSE monthly
      other == IF f.x = "Calendar Year" THEN monthly ELSE annual
  IN /\ other = <<>>
     /\ Len(T) = Cardinality(PositiveCells(f))
     /\ \A c \in PositiveCells(f) : \E k \in DOMAIN T : RowOfCell(T[k], f, c)
     /\ \A k \in DOMAIN T : \E c \in PositiveCells(f) : RowOfCell(T[k], f, c)

\* C32: after the migration of a directory that holds a single CSV file the
\* tables hold exactly one row per cell of a 'Calendar Year_YYYY', resp.
\* 'Month Wise_*' column whose row has a name and whose value is greater
\* than 0, and no other row.
C32_OneRowPerPositiveCell ==
  (astep >= 1 /\ Len(outdir) = 1) => OneRowPerCell(OnlyFile)

\* the files of one time axis, in the order of the directory
FilesOf(x) ==
  SelectSeq([i \in DOMAIN outdir |-> FileRecord(outdir[i])], LAMBDA f : f.x = x)

\* C33: after migrate_csvs both tables hold what the migration of the CSV
\* files of the directory into empty tables gives, whatever the tables held
\* before: the rows present before are gone, and a second migration of the
\* same directory leaves the contents of the first.
C33_TablesFromTheFilesAlone ==
  astep >= 1 =>
    /\ annual = MigrateFiles(<<>>, FilesOf("Calendar Year"), "annual_registrations")
    /\ monthly = MigrateFiles(<<>>, FilesOf("Month Wise"), "monthly_registrations")

\* a directory with a file of each time axis migrated twice in a row
C33_MigratedTwice ==
  /\ astep = 2 /\ annual # <<>> /\ monthly # <<>>
  /\ FilesOf("Calendar Year") # <<>> /\ FilesOf("Month Wise") # <<>>


(***************************************************************************)
(* The files of the CSV harvester, checked under CsvSpec.                  *)
(***************************************************************************)
\* the table the source shows for the combination c
SourceTable(c) ==
  (CHOOSE f \in CsvFiles : f.y = c.y /\ f.x = c.x /\ f.year = c.year).table

\* C37: two distinct combinations have distinct file names; the directory
\* holds at most one file per combination, and each file holds the table
\* the source shows for its combination, once, however often the
\* combination was written.
C37_OneFilePerCombination ==
  /\ \A c, d \in Combinations :
        c # d => output_filename(c.y, c.x, c.year) # output_filename(d.y, d.x, d.year)
  /\ \A i, j \in DOMAIN outdir : i # j => outdir[i].name # outdir[j].name
  /\ \A i \in DOMAIN outdir :
        \E c \in Combinations :
          /\ outdir[i].name = output_filename(c.y, c.x, c.year)
          /\ outdir[i].table = SourceTable(c)

\* a directory of two files, one of them written a second time
C37_WrittenAgain ==
  /\ Len(outdir) = 2
  /\ \E i \in DOMAIN outdir : outdir[i].writes = 2
  /\ \E i \in DOMAIN outdir : outdir[i].writes = 1


(***************************************************************************)
(* The copies of the category mapping, checked under MapSpec.              *)
(***************************************************************************)
\* C36: for every category name the copies of map_vehicle_category in
\* sql_app, csv_app and migrate_csv_to_sql return the same bucket.
C36_CopiesAgree ==
  astep = 1 =>
    /\ bucketed.sql_app = bucketed.csv_app
    /\ bucketed.csv_app = bucketed.migrate


(***************************************************************************)
(* The years of a time axis, checked under Spec.                           *)
(***************************************************************************)
\* the listed options from 2016 to the current year of the model, in the
\* order of the listing
InRange(listed) ==
  LET F[i \in 0..Len(listed)] ==
        IF i = 0 THEN <<>>
        ELSE IF ParseInt(listed[i]) \in 2016..2018
             THEN Append(F[i-1], listed[i]) ELSE F[i-1]
  IN F[Len(listed)]

\* the years of the current time axis whose combination was attempted
AttemptedYears == {c[3] : c \in {d \in reached : d[1] = CurY /\ d[2] = CurX}}

\* the handler has listed the years and main goes on
YearsListedStep == pc = "list_years" /\ pc' # "idle"

\* the year loop of the handler is exhausted
YearLoopEnds == pc \in {"cy_select", "mw_select"} /\ ki > Len(years) /\ pc' = "sel_x"

\* C34: the years a handler attempts are the options its year dropdown
\* listed that lie in the configured range, in the order of the listing:
\* the k-th attempt is the k-th such option and comes after the attempts of
\* those before it, and a loop that ends has attempted each of them; when
\* no listed option lies in the range, no combination of the axis is
\* attempted and main goes on with the next time axis.
C34_YearsAreTheListedOnesInRange ==
  [][
      /\ (YearsListedStep /\ InRange(fetched_year_options') = <<>>) =>
          (/\ pc' = "sel_x" /\ xi' = xi + 1 /\ yi' = yi
           /\ reached' = reached /\ AttemptedYears = {}
           /\ ended' = "none")
      /\ (YearsListedStep /\ InRange(fetched_year_options') # <<>>) =>
          (/\ years' = InRange(fetched_year_options') /\ ki' = 1
           /\ pc' \in {"cy_select", "mw_select"})
      /\ AttemptStep =>
          (/\ years = InRange(fetched_year_options)
           /\ AttemptedYears = {years[k] : k \in 1..(ki - 1)}
           /\ CurYear \in AttemptedYears')
      /\ YearLoopEnds =>
          (AttemptedYears = Range(InRange(fetched_year_options)))
    ]_vars

\* a time axis whose listed years were attempted, then a time axis whose
\* dropdown listed a year before the range only and was passed over
C34_AxisWithoutYearsPassedOver ==
  /\ pc = "sel_x" /\ xi = 3 /\ ended = "none"
  /\ fetched_year_options = <<"2015">>
  /\ \E x \in Range(xopts) :
       /\ <<CurY, x>> \in skipped
       /\ \A c \in reached : c[2] # x
  /\ \E x \in Range(xopts) :
       {c[3] : c \in {d \in reached : d[1] = CurY /\ d[2] = x}} = {"2016", "2017"}


(***************************************************************************)
(* The browser session of main, checked under Spec.                        *)
(***************************************************************************)
\* main returns: by the end of its loops, by the return after an empty
\* Y-axis listing, or through its except clause
MainReturns == pc # "idle" /\ pc' = "idle" /\ ended' # "interrupted"

\* C35: main, once it holds a browser session, closes it in the step in
\* which it returns, whether the loops ended, the Y-axis options could not
\* be listed or an exception reached the except clause, and in no step
\* before: every statement of main that touches the page runs with the
\* session open, and a closed session is touched by no statement.
C35_SessionClosedOnceAtTheEnd ==
  [][
      /\ MainReturns => (driver = "open" /\ driver' = "quit")
      /\ (driver # "quit" /\ driver' = "quit") => MainReturns
      /\ pc # "idle" => driver = "open"
      /\ pc' # "idle" => driver' = "open"
    ]_vars

\* a run that ended with its loops, then a run that returned at the empty
\* Y-axis listing, its session closed
C35_ClosedAfterTheEarlyReturn ==
  /\ pc = "idle" /\ run = 2 /\ driver = "quit"
  /\ prevEnded = "loop_end" /\ ended = "no_y_options"

==============================================================================
